---- MODULE Spec2Model ----
(***************************************************************************)
(* A model of the unification core of the Luau type checker                *)
(* (Analysis/src/Unifier.cpp).  The arena of type nodes and pack nodes,    *)
(* the transaction log, the shared seen stack, the unify cache and the     *)
(* error vector are the state; tryUnify, canUnify and log.rollback are the *)
(* operations.  The recursive unifier is written as operators that take    *)
(* the whole unifier-and-arena record `u` and return the record after the  *)
(* call, statement by statement as in the source.                          *)
(*                                                                         *)
(* Where a function computes a value that the rest of its body reads more  *)
(* than once, the rest of the body is an operator of its own, named after  *)
(* the function and the local (tryUnifyTables_s1 is tryUnifyTables after   *)
(* its local s1), and takes the local as its last parameter.               *)
(***************************************************************************)
EXTENDS Integers, Sequences, FiniteSets, TLC

VARIABLES
    types,          \* TypeArena: sequence of type nodes, TypeId = index
    packs,          \* TypeArena: sequence of pack nodes, TypePackId = index
    log,            \* Unifier::log of the top-level unifier (TxnLog entries)
    errors,         \* Unifier::errors of the top-level unifier
    seen,           \* TxnLog::sharedSeen, the stack shared with child unifiers
    cachedUnify,    \* UnifierSharedState::cachedUnify
    skipCacheForType, \* UnifierSharedState::skipCacheForType (memo of the skip predicate)
    iterationCount, \* UnifierSharedState::counters.iterationCount
    cfg,            \* feature flags, variance and mode the unifier was built with
    queries,        \* the pairs of handles the type checker asks the unifier about
    calls,          \* number of top-level operations performed so far
    base,           \* the arena as it was when the top-level log was last empty
    last,           \* what the last top-level operation was and what it observed
    vm              \* the userdata of a lua_State: heap, global->udatagc, last call

vars == <<types, packs, log, errors, seen, cachedUnify, skipCacheForType,
          iterationCount, cfg, queries, calls, base, last, vm>>

-----------------------------------------------------------------------------
(* Bounds of the model *)

\* number of top-level operations (tryUnify, canUnify) in one behaviour
MaxCalls == 2

\* number of userdata allocated in one behaviour
MaxUdata == 2

-----------------------------------------------------------------------------
(* Small helpers on sequences *)

None == 0

Last(s) == s[Len(s)]

Front(s) == SubSeq(s, 1, Len(s) - 1)

SeqRange(s) == {s[i] : i \in 1..Len(s)}

Min2(a, b) == IF a <= b THEN a ELSE b

-----------------------------------------------------------------------------
(* TypeLevel *)

MkLevel(major, minor) == [level |-> major, subLevel |-> minor]

\* subsumes not holding between equal levels
subsumes_strict(a, b) == a.level < b.level

\* a.subsumes(b)
subsumes(a, b) == a.level <= b.level

\* a.subsumesStrict(b)
subsumesStrict(a, b) ==
    \/ a.level < b.level
    \/ a.level = b.level /\ a.subLevel < b.subLevel

\* min(a, b) on type levels
minLevel(a, b) == IF subsumes(a, b) THEN a ELSE b

-----------------------------------------------------------------------------
(* Type nodes and pack nodes *)

FreeTypeVar(lv) == [tag |-> "Free", level |-> lv]
BoundTypeVar(to) == [tag |-> "Bound", boundTo |-> to]
GenericTypeVar(lv) == [tag |-> "Generic", level |-> lv]
ErrorTypeVar == [tag |-> "Error"]
AnyTypeVar == [tag |-> "Any"]
PrimitiveTypeVar(k) == [tag |-> "Primitive", type |-> k]
SingletonTypeVar(k, v) == [tag |-> "Singleton", kind |-> k, value |-> v]
FunctionTypeVar(gs, gps, args, ret, lv, def) ==
    [tag |-> "Function", generics |-> gs, genericPacks |-> gps, argTypes |-> args,
     retType |-> ret, level |-> lv, definition |-> def, persistent |-> FALSE]
TableTypeVar(ps, ix, st, lv, nm) ==
    [tag |-> "Table", props |-> ps, indexer |-> ix, state |-> st, boundTo |-> None,
     level |-> lv, name |-> nm]
MetatableTypeVar(t, m) == [tag |-> "Metatable", table |-> t, metatable |-> m]
ClassTypeVar(nm, par, ps) == [tag |-> "Class", name |-> nm, parent |-> par, props |-> ps]
UnionTypeVar(opts) == [tag |-> "Union", options |-> opts]
IntersectionTypeVar(ps) == [tag |-> "Intersection", parts |-> ps]

FreeTypePack(lv) == [tag |-> "Free", level |-> lv]
BoundTypePack(to) == [tag |-> "Bound", boundTo |-> to]
GenericTypePack == [tag |-> "Generic"]
ErrorTypePack == [tag |-> "Error"]
TypePack(hd, tl) == [tag |-> "TypePack", head |-> hd, tail |-> tl]
VariadicTypePack(t) == [tag |-> "Variadic", ty |-> t]

\* Property { type, location }
Property(t) == [type |-> t, location |-> FALSE]

\* TableIndexer { indexType, indexResultType }; <<>> is "no indexer"
TableIndexer(k, v) == <<k, v>>
NoIndexer == <<>>

\* The property names of the model in the iteration order of std::map
PropNames == <<"bar", "foo", "kind", "next", "prop", "v">>

NoProps == [n \in {} |-> Property(None)]

-----------------------------------------------------------------------------
(* SingletonTypes: the fixed nodes at the start of every arena *)

nilType == 1
anyType == 2
stringType == 3
numberType == 4
booleanType == 5
errorRecoveryType == 6
errorRecoveryTypePack == 1

SingletonTypes ==
    << PrimitiveTypeVar("nil"), AnyTypeVar, PrimitiveTypeVar("string"),
       PrimitiveTypeVar("number"), PrimitiveTypeVar("boolean"), ErrorTypeVar >>

SingletonPacks == << ErrorTypePack >>

-----------------------------------------------------------------------------
(* follow *)

RECURSIVE followN(_, _, _)
\* follow(TypeId): chase Bound nodes and tables with boundTo; n bounds the walk
followN(ts, ty, n) ==
    IF n = 0 THEN ty
    ELSE IF ts[ty].tag = "Bound" THEN followN(ts, ts[ty].boundTo, n - 1)
    ELSE IF ts[ty].tag = "Table" /\ ts[ty].boundTo # None THEN followN(ts, ts[ty].boundTo, n - 1)
    ELSE ty

follow(ts, ty) == followN(ts, ty, Len(ts) + 1)

RECURSIVE followPackN(_, _, _)
\* follow(TypePackId)
followPackN(ps, tp, n) ==
    IF n = 0 THEN tp
    ELSE IF ps[tp].tag = "Bound" THEN followPackN(ps, ps[tp].boundTo, n - 1)
    ELSE tp

followPack(ps, tp) == followPackN(ps, tp, Len(ps) + 1)

-----------------------------------------------------------------------------
(* Helpers of TypeVar / TypePack / TypeUtils *)

\* isNil(ty)
isNil(ts, ty) ==
    LET t == follow(ts, ty) IN ts[t].tag = "Primitive" /\ ts[t].type = "nil"

\* isString(ty)
isString(ts, ty) ==
    LET t == follow(ts, ty) IN ts[t].tag = "Primitive" /\ ts[t].type = "string"

\* isOptional(ty): a union whose options include nil
isOptional(ts, ty) ==
    LET t == follow(ts, ty) IN
    /\ ts[t].tag = "Union"
    /\ \E i \in 1..Len(ts[t].options) : isNil(ts, ts[t].options[i])

\* get<AnyTypeVar>(follow(ty))
isAnyFollowed(ts, ty) == ts[follow(ts, ty)].tag = "Any"

\* getName(ty): the name of a table (or of the table under a metatable); "" is none
RECURSIVE getNameN(_, _, _)
getNameN(ts, ty, n) ==
    LET t == follow(ts, ty) IN
    IF n = 0 THEN ""
    ELSE IF ts[t].tag = "Table" THEN ts[t].name
    ELSE IF ts[t].tag = "Metatable" THEN getNameN(ts, ts[t].table, n - 1)
    ELSE ""

getName(ts, ty) == getNameN(ts, ty, Len(ts))

\* getMutableLevel(ty): the node whose level is mutable, or None
getMutableLevel(ts, ty) ==
    LET t == follow(ts, ty) IN
    IF ts[t].tag \in {"Free", "Table", "Function"} THEN t ELSE None

RECURSIVE flattenN(_, _, _)
\* flattenN after its local p
flattenN_p(ps, n, p) ==
    IF ps[p].tag # "TypePack" THEN [head |-> <<>>, tail |-> p]
    ELSE IF ps[p].tail = None \/ n = 0 THEN [head |-> ps[p].head, tail |-> None]
    ELSE LET rest == flattenN(ps, ps[p].tail, n - 1)
         IN [head |-> ps[p].head \o rest.head, tail |-> rest.tail]

\* flatten(tp): the heads along the chain of TypePacks and the tail that ends it
flattenN(ps, tp, n) ==
    flattenN_p(ps, n, followPack(ps, tp))

flatten(ps, tp) == flattenN(ps, tp, Len(ps))

\* size(tp)
size(ps, tp) == Len(flatten(ps, tp).head)

\* finite(tp)
finite(ps, tp) ==
    LET f == flatten(ps, tp) IN f.tail = None \/ ps[f.tail].tag # "Variadic"

RECURSIVE isSubclassN(_, _, _, _)
\* isSubclass(cls, parent): walk the parent chain
isSubclassN(ts, cls, parent, n) ==
    IF cls = parent THEN TRUE
    ELSE IF n = 0 \/ ts[cls].parent = None THEN FALSE
    ELSE isSubclassN(ts, ts[cls].parent, parent, n - 1)

isSubclass(ts, cls, parent) == isSubclassN(ts, cls, parent, Len(ts))

RECURSIVE lookupClassPropN(_, _, _, _)
\* lookupClassProp(cls, name): the property type found along the parent chain, or None
lookupClassPropN(ts, cls, name, n) ==
    IF name \in DOMAIN ts[cls].props THEN ts[cls].props[name].type
    ELSE IF n = 0 \/ ts[cls].parent = None THEN None
    ELSE lookupClassPropN(ts, ts[cls].parent, name, n - 1)

lookupClassProp(ts, cls, name) == lookupClassPropN(ts, cls, name, Len(ts))

-----------------------------------------------------------------------------
(* TypeError *)

TypeError(k, w, g, r, c) ==
    [kind |-> k, wanted |-> w, given |-> g, reason |-> r, cause |-> c, properties |-> <<>>]

TypeMismatch(w, g) == TypeError("TypeMismatch", w, g, "", "")
TypeMismatchBecause(w, g, r, inner) == TypeError("TypeMismatch", w, g, r, inner.kind)
UnificationTooComplex == TypeError("UnificationTooComplex", None, None, "", "")
OccursCheckFailed == TypeError("OccursCheckFailed", None, None, "", "")
GenericError(msg) == TypeError("GenericError", None, None, msg, "")
MissingProperties(w, g, k) ==
    [TypeError("MissingProperties", w, g, "Missing", "") EXCEPT !.properties = k]
MissingPropertiesExtra(w, g, k) ==
    [TypeError("MissingProperties", w, g, "Extra", "") EXCEPT !.properties = k]
UnknownProperty(t, nm) == TypeError("UnknownProperty", t, None, nm, "")
CountMismatch(e, a, c) == TypeError("CountMismatch", e, a, c, "")
CannotExtendTable(t, k) == TypeError("CannotExtendTable", t, None, k, "")

\* hasUnificationTooComplex(errors)
hasUnificationTooComplex(errs) ==
    \E i \in 1..Len(errs) : errs[i].kind = "UnificationTooComplex"

-----------------------------------------------------------------------------
(* The unifier record: arena and shared state, then the unifier's own fields,
   then what the call has observed so far *)

NoObs ==
    [popOk |-> TRUE, adopted |-> {}, ice |-> FALSE, pushed |-> 0,
     invocations |-> 0, overLimit |-> 0, overLimitOk |-> TRUE,
     tried |-> <<>>, touched |-> {}, variadics |-> <<>>, passes |-> 0]

Unifier(ts, ps, lg, errs, sn, cache, skip, iter, variance) ==
    [types |-> ts, packs |-> ps, seen |-> sn, cachedUnify |-> cache,
     skipCacheForType |-> skip, iterationCount |-> iter,
     log |-> lg, errors |-> errs, variance |-> variance, ctx |-> "Arg",
     firstPackErrorPos |-> 0, obs |-> NoObs]

pushError(u, e) == [u EXCEPT !.errors = Append(@, e)]

\* Unifier::ice: the internal error reporter throws
ice(u) == [u EXCEPT !.obs.ice = TRUE]

\* TypeArena::addType
addType(u, node) == [u EXCEPT !.types = Append(@, node)]

\* the id addType has just returned
newType(u) == Len(u.types)

\* TypeArena::addTypePack
addTypePack(u, node) == [u EXCEPT !.packs = Append(@, node)]

newTypePack(u) == Len(u.packs)

-----------------------------------------------------------------------------
(* TxnLog *)

\* log(TypeId): snapshot the node before it is mutated
logType(u, ty) ==
    [u EXCEPT !.log = Append(@, [kind |-> "type", id |-> ty, old |-> u.types[ty]]),
              !.obs.touched = @ \cup {<<"type", ty>>}]

\* log(TypePackId)
logPack(u, tp) ==
    [u EXCEPT !.log = Append(@, [kind |-> "pack", id |-> tp, old |-> u.packs[tp]]),
              !.obs.touched = @ \cup {<<"pack", tp>>}]

\* log(TableTypeVar*): the table node of that id
logTable(u, ty) == logType(u, ty)

RECURSIVE restore(_, _, _)
\* the arena after undoing entries i, i-1, .., 1 of lg
restore(arena, lg, i) ==
    IF i = 0 THEN arena
    ELSE IF lg[i].kind = "type"
    THEN restore([arena EXCEPT !.types[lg[i].id] = lg[i].old], lg, i - 1)
    ELSE restore([arena EXCEPT !.packs[lg[i].id] = lg[i].old], lg, i - 1)

\* a rollback that clears the log and restores nothing
rollback_forget(u) == [u EXCEPT !.log = <<>>]

\* TxnLog::rollback
rollback(u) ==
    LET a == restore([types |-> u.types, packs |-> u.packs], u.log, Len(u.log))
    IN [u EXCEPT !.types = a.types, !.packs = a.packs, !.log = <<>>]

\* TxnLog::haveSeen
haveSeen(u, a, b) == \E i \in 1..Len(u.seen) : u.seen[i] = <<a, b>>

\* TxnLog::pushSeen
pushSeen(u, a, b) == [u EXCEPT !.seen = Append(@, <<a, b>>), !.obs.pushed = @ + 1]

\* TxnLog::popSeen
popSeen(u, a, b) ==
    IF Len(u.seen) = 0 THEN [u EXCEPT !.obs.popOk = FALSE]
    ELSE [u EXCEPT !.seen = Front(@),
                   !.obs.popOk = @ /\ Last(u.seen) = <<a, b>>]

-----------------------------------------------------------------------------
(* Child unifiers *)

\* makeChildUnifier giving the child an iteration counter of its own
makeChildUnifier_ownCounter(u) ==
    [u EXCEPT !.log = <<>>, !.errors = <<>>, !.ctx = "Arg", !.firstPackErrorPos = 0,
              !.iterationCount = 0]

\* Unifier::makeChildUnifier: shares arena, seen stack and shared state; its
\* own log and errors; the parent's current variance
makeChildUnifier(u) ==
    [u EXCEPT !.log = <<>>, !.errors = <<>>, !.ctx = "Arg", !.firstPackErrorPos = 0]

\* the parent after the child has run: the shared parts are the child's
resume(parent, child) ==
    [child EXCEPT !.log = parent.log, !.errors = parent.errors,
                  !.variance = parent.variance, !.ctx = parent.ctx,
                  !.firstPackErrorPos = parent.firstPackErrorPos]

\* the contents of a type node that a snapshot is to restore: its variant,
\* binding, level, properties, indexer and boundTo (the source definition a
\* function carries is not counted)
contents(t) == IF t.tag = "Function" THEN [t EXCEPT !.definition = FALSE] ELSE t

\* every node of `before` has the same contents in `after`
sameNodes(before, after) ==
    /\ \A i \in 1..Len(before.types) : contents(after.types[i]) = contents(before.types[i])
    /\ \A i \in 1..Len(before.packs) : after.packs[i] = before.packs[i]

\* log.concat(std::move(innerState.log)) at the place `site`
concatChild(parent, child, site) ==
    LET p == resume(parent, child) IN
    [p EXCEPT !.log = parent.log \o child.log,
              !.obs.adopted = @ \cup {[site |-> site, failed |-> child.errors # <<>>,
                                       how |-> "concat", restored |-> FALSE]}]

\* rollbackChild after its local r
rollbackChild_r(parent, child, site, start, r) ==
    LET p == resume(parent, r)
    IN [p EXCEPT !.obs.adopted = @ \cup {[site |-> site, failed |-> child.errors # <<>>,
                                          how |-> "rollback",
                                          restored |-> sameNodes(start, r)]}]

\* innerState.log.rollback() at the place `site`; `start` is the unifier
\* record at the time the child was made
rollbackChild(parent, child, site, start) ==
    rollbackChild_r(parent, child, site, start, rollback(child))

-----------------------------------------------------------------------------
(* visitTypeVar: the children of a node in the order the visitor walks them.
   An item is <<"type", id>> or <<"pack", id>>. *)

typeItems(ids) == [i \in 1..Len(ids) |-> <<"type", ids[i]>>]

RECURSIVE propItems(_, _)
\* the property types of a property map, in the order of the names
propItems(props, i) ==
    IF i > Len(PropNames) THEN <<>>
    ELSE IF PropNames[i] \in DOMAIN props
    THEN <<<<"type", props[PropNames[i]].type>>>> \o propItems(props, i + 1)
    ELSE propItems(props, i + 1)

visitChildren(ts, ps, item) ==
    IF item[1] = "type"
    THEN LET t == ts[item[2]] IN
         CASE t.tag = "Bound" -> <<<<"type", t.boundTo>>>>
           [] t.tag = "Function" -> <<<<"pack", t.argTypes>>, <<"pack", t.retType>>>>
           [] t.tag = "Table" ->
                IF t.boundTo # None THEN <<<<"type", t.boundTo>>>>
                ELSE propItems(t.props, 1) \o typeItems(t.indexer)
           [] t.tag = "Metatable" -> <<<<"type", t.table>>, <<"type", t.metatable>>>>
           [] t.tag = "Class" ->
                propItems(t.props, 1) \o
                (IF t.parent # None THEN <<<<"type", t.parent>>>> ELSE <<>>)
           [] t.tag = "Union" -> typeItems(t.options)
           [] t.tag = "Intersection" -> typeItems(t.parts)
           [] OTHER -> <<>>
    ELSE LET p == ps[item[2]] IN
         CASE p.tag = "Bound" -> <<<<"pack", p.boundTo>>>>
           [] p.tag = "TypePack" ->
                typeItems(p.head) \o
                (IF p.tail # None THEN <<<<"pack", p.tail>>>> ELSE <<>>)
           [] p.tag = "Variadic" -> <<<<"type", p.ty>>>>
           [] OTHER -> <<>>

-----------------------------------------------------------------------------
(* PromoteTypeLevels *)

\* promote applied to generic types as well
promote_generics(u, minLv, item) ==
    IF item[1] = "type"
    THEN IF /\ u.types[item[2]].tag \in {"Free", "Function", "Table", "Generic"}
            /\ subsumesStrict(minLv, u.types[item[2]].level)
         THEN [logType(u, item[2]) EXCEPT !.types[item[2]].level = minLv]
         ELSE u
    ELSE IF /\ u.packs[item[2]].tag = "Free"
            /\ subsumesStrict(minLv, u.packs[item[2]].level)
         THEN [logPack(u, item[2]) EXCEPT !.packs[item[2]].level = minLv]
         ELSE u

\* PromoteTypeLevels::promote: lower the level of a node to minLevel, logged
promote(u, minLv, item) ==
    IF item[1] = "type"
    THEN IF /\ u.types[item[2]].tag \in {"Free", "Function", "Table"}
            /\ subsumesStrict(minLv, u.types[item[2]].level)
         THEN [logType(u, item[2]) EXCEPT !.types[item[2]].level = minLv]
         ELSE u
    ELSE IF /\ u.packs[item[2]].tag = "Free"
            /\ subsumesStrict(minLv, u.packs[item[2]].level)
         THEN [logPack(u, item[2]) EXCEPT !.packs[item[2]].level = minLv]
         ELSE u

RECURSIVE promoteVisit(_, _, _, _)
\* visitTypeVarOnce(ty, PromoteTypeLevels{log, minLevel}, seen)
promoteVisit(u, minLv, stack, visited) ==
    IF stack = <<>> THEN u
    ELSE LET item == Head(stack) IN
         IF item \in visited THEN promoteVisit(u, minLv, Tail(stack), visited)
         ELSE promoteVisit(promote(u, minLv, item), minLv,
                           visitChildren(u.types, u.packs, item) \o Tail(stack),
                           visited \cup {item})

\* promoteTypeLevels(log, minLevel, ty)
promoteTypeLevels(u, minLv, ty) == promoteVisit(u, minLv, <<<<"type", ty>>>>, {})

-----------------------------------------------------------------------------
(* SkipCacheForType and Unifier::cacheResult *)

\* SkipCacheForType::operator(): TRUE when the node makes the type uncacheable
skipFlags(ts, ps, skip, item) ==
    IF item[1] = "type"
    THEN LET t == ts[item[2]] IN
         CASE t.tag \in {"Free", "Bound", "Generic"} -> TRUE
           [] t.tag = "Table" -> t.boundTo # None \/ t.state # "Sealed"
           [] OTHER -> item[2] \in DOMAIN skip /\ skip[item[2]]
    ELSE ps[item[2]].tag \in {"Free", "Bound", "Generic"}

RECURSIVE skipVisit(_, _, _, _, _)
\* visitTypeVarOnce(ty, SkipCacheForType, seenAny): the visitor's result
skipVisit(ts, ps, skip, stack, visited) ==
    IF stack = <<>> THEN FALSE
    ELSE LET item == Head(stack) IN
         IF item \in visited THEN skipVisit(ts, ps, skip, Tail(stack), visited)
         ELSE IF skipFlags(ts, ps, skip, item) THEN TRUE
         ELSE skipVisit(ts, ps, skip, visitChildren(ts, ps, item) \o Tail(stack),
                        visited \cup {item})

\* the lambda skipCacheFor of cacheResult: the visitor's result for ty
skipCacheFor(u, ty) == skipVisit(u.types, u.packs, u.skipCacheForType, <<<<"type", ty>>>>, {})

\* skipCacheForType[ty] = result
memoSkip(u, ty, result) ==
    [u EXCEPT !.skipCacheForType =
        [t \in (DOMAIN @) \cup {ty} |-> IF t = ty THEN result ELSE @[t]]]

\* cacheResult after its local superSkip
cacheResult_superSkip(u, superTy, subTy, superTyInfo, subTyInfo, superSkip) ==
    LET u1 == IF superTyInfo THEN u ELSE memoSkip(u, superTy, superSkip)
    IN
    IF ~superTyInfo /\ superSkip THEN u1
    ELSE
      LET subSkip == skipCacheFor(u1, subTy)
          u2 == IF subTyInfo THEN u1 ELSE memoSkip(u1, subTy, subSkip)
      IN
      IF ~subTyInfo /\ subSkip THEN u2
      ELSE [u2 EXCEPT !.cachedUnify =
               @ \cup {<<superTy, subTy>>} \cup
               (IF u.variance = "Invariant" THEN {<<subTy, superTy>>} ELSE {})]

\* Unifier::cacheResult
cacheResult(u, superTy, subTy) ==
    LET skip == u.skipCacheForType
        superTyInfo == superTy \in DOMAIN skip
        subTyInfo == subTy \in DOMAIN skip
    IN
    IF superTyInfo /\ skip[superTy] THEN u
    ELSE IF subTyInfo /\ skip[subTy] THEN u
    ELSE
      cacheResult_superSkip(u, superTy, subTy, superTyInfo, subTyInfo, skipCacheFor(u, superTy))

\* cache.contains({a, b}) && (variance == Covariant || cache.contains({b, a}))
cacheContains(u, a, b) ==
    /\ <<a, b>> \in u.cachedUnify
    /\ (u.variance = "Covariant" \/ <<b, a>> \in u.cachedUnify)

-----------------------------------------------------------------------------
(* Unifier::occursCheck *)

\* the heads a TypePackIterator yields for the pack tp
packHeads(u, tp) == flatten(u.packs, tp).head

RECURSIVE occursCheckSeen(_, _, _), occursCheckAll(_, _, _)
\* occursCheckSeen after its local haystack
occursCheckSeen_haystack(st, u, needle, haystack) ==
    LET st1 == [st EXCEPT !.seen = @ \cup {haystack}]
        h == u.types[haystack]
    IN
    IF haystack \in st.seen THEN st
    ELSE IF u.types[needle].tag = "Error" THEN st1
    ELSE IF u.types[needle].tag # "Free" THEN [st1 EXCEPT !.u = ice(u)]
    ELSE IF needle = haystack
    THEN [st1 EXCEPT !.u =
            [logType(pushError(u, OccursCheckFailed), needle)
                EXCEPT !.types[needle] = u.types[errorRecoveryType]]]
    ELSE IF h.tag = "Free" THEN st1
    ELSE IF h.tag = "Function"
    THEN IF ~cfg.LuauOccursCheckOkWithRecursiveFunctions
         THEN occursCheckAll(st1, needle, packHeads(u, h.argTypes) \o packHeads(u, h.retType))
         ELSE st1
    ELSE IF h.tag = "Union" THEN occursCheckAll(st1, needle, h.options)
    ELSE IF h.tag = "Intersection" THEN occursCheckAll(st1, needle, h.parts)
    ELSE st1

\* occursCheck(seen, needle, haystack) for types; st = [u, seen]
occursCheckSeen(st, needle0, haystack0) ==
    LET u == st.u
        needle == follow(u.types, needle0)
    IN  occursCheckSeen_haystack(st, u, needle, follow(u.types, haystack0))

\* for (TypeId ty : tys) check(ty)
occursCheckAll(st, needle, tys) ==
    IF tys = <<>> THEN st
    ELSE occursCheckAll(occursCheckSeen(st, needle, Head(tys)), needle, Tail(tys))

\* the haystack not searched
occursCheck_skipped(u, needle, haystack) == u

\* Unifier::occursCheck(TypeId needle, TypeId haystack)
occursCheck(u, needle, haystack) ==
    occursCheckSeen([u |-> u, seen |-> {}], needle, haystack).u

RECURSIVE occursCheckPackSeen(_, _, _), occursCheckPackLoop(_, _, _), occursCheckPackHeads(_, _, _)
\* occursCheck(seen, needle, haystack) for packs; st = [u, seen]
occursCheckPackSeen(st, needle0, haystack0) ==
    LET u == st.u
        needle == followPack(u.packs, needle0)
        haystack == followPack(u.packs, haystack0)
        st1 == [st EXCEPT !.seen = @ \cup {haystack}]
    IN
    IF haystack \in st.seen THEN st
    ELSE IF u.packs[needle].tag = "Error" THEN st1
    ELSE IF u.packs[needle].tag # "Free" THEN [st1 EXCEPT !.u = ice(u)]
    ELSE occursCheckPackLoop(st1, needle, haystack)

\* occursCheckPackLoop after its local st1
occursCheckPackLoop_st1(needle, h, st1) ==
    IF h.tail # None
    THEN occursCheckPackLoop(st1, needle, followPack(st1.u.packs, h.tail))
    ELSE st1

\* the while loop of the pack occurs check
occursCheckPackLoop(st, needle, haystack) ==
    LET u == st.u
        h == u.packs[haystack]
    IN
    IF h.tag = "Error" THEN st
    ELSE IF needle = haystack
    THEN [st EXCEPT !.u =
            [logPack(pushError(u, OccursCheckFailed), needle)
                EXCEPT !.packs[needle] = u.packs[errorRecoveryTypePack]]]
    ELSE IF h.tag = "TypePack"
    THEN occursCheckPackLoop_st1(needle, h, IF ~cfg.LuauOccursCheckOkWithRecursiveFunctions
                                            THEN occursCheckPackHeads(st, needle, h.head)
                                            ELSE st)
    ELSE st

\* for (const auto& ty : a->head): the packs of the functions among the heads
occursCheckPackHeads(st, needle, hd) ==
    IF hd = <<>> THEN st
    ELSE LET f == follow(st.u.types, Head(hd))
             fn == st.u.types[f]
         IN IF fn.tag = "Function"
            THEN occursCheckPackHeads(
                    occursCheckPackSeen(occursCheckPackSeen(st, needle, fn.argTypes),
                                        needle, fn.retType),
                    needle, Tail(hd))
            ELSE occursCheckPackHeads(st, needle, Tail(hd))

\* Unifier::occursCheck(TypePackId needle, TypePackId haystack)
occursCheckPack(u, needle, haystack) ==
    occursCheckPackSeen([u |-> u, seen |-> {}], needle, haystack).u

-----------------------------------------------------------------------------
(* Unifier::tryUnify_ (TypeId) and the rules it dispatches to *)

\* the identity test left out
identical_never(superTy, subTy) == FALSE

\* if (superTy == subTy) return;  on followed handles
identical(superTy, subTy) == superTy = subTy

\* Unifier::tryUnify_ is overloaded on TypeId and TypePackId; every call of either overload
\* enters through tryUnify_overload, which resolves it
RECURSIVE tryUnify_overload(_, _, _, _, _, _)

tryUnify_(u, superTy, subTy, isFunctionCall, isIntersection) ==
    tryUnify_overload(u, "TypeId", superTy, subTy, isFunctionCall, isIntersection)

tryUnifyPack_(u, superTp, subTp, isFunctionCall) ==
    tryUnify_overload(u, "TypePackId", superTp, subTp, isFunctionCall, FALSE)

RECURSIVE unionSubLoop(_, _, _, _, _, _), unionSuperLoop(_, _, _, _, _, _, _),
          intersectionSuperLoop(_, _, _, _, _, _), intersectionSuperPlain(_, _, _, _),
          intersectionSubLoop(_, _, _, _, _, _, _),
          tryUnifyFunctions(_, _, _, _), tryUnifyTables(_, _, _, _),
          tryUnifyWithMetatable(_, _, _, _), tryUnifyWithClass(_, _, _, _),
          tryUnifyWithAny(_, _, _), tryUnifyWithAnyPack(_, _, _),
          tryUnifyVariadics(_, _, _, _, _)

\* *asMutable(ty) = BoundTypeVar(to), after log(ty)
bindType(u, ty, to) == [logType(u, ty) EXCEPT !.types[ty] = BoundTypeVar(to)]

\* *asMutable(tp) = Unifiable::Bound<TypePackId>(to), after log(tp)
bindPack(u, tp, to) == [logPack(u, tp) EXCEPT !.packs[tp] = BoundTypePack(to)]

\* Unifier::tryUnifyPrimitives
tryUnifyPrimitives(u, superTy, subTy) ==
    IF u.types[superTy].tag # "Primitive" \/ u.types[subTy].tag # "Primitive" THEN ice(u)
    ELSE IF u.types[superTy].type # u.types[subTy].type
    THEN pushError(u, TypeMismatch(superTy, subTy))
    ELSE u

\* tryUnifySingletons that accepts a literal for its primitive type under
\* every variance
tryUnifySingletons_anyVariance(u, superTy, subTy) ==
    LET l == u.types[superTy]
        rs == u.types[subTy]
    IN IF l = rs \/ (l.tag = "Primitive" /\ l.type = "boolean" /\ rs.kind = "bool")
             \/ (l.tag = "Primitive" /\ l.type = "string" /\ rs.kind = "string")
       THEN u
       ELSE pushError(u, TypeMismatch(superTy, subTy))

\* Unifier::tryUnifySingletons
tryUnifySingletons(u, superTy, subTy) ==
    LET l == u.types[superTy]
        rs == u.types[subTy]
        lp == l.tag = "Primitive"
        ls == l.tag = "Singleton"
    IN
    IF (~lp /\ ~ls) \/ rs.tag # "Singleton" THEN ice(u)
    ELSE IF ls /\ l = rs THEN u
    ELSE IF lp /\ l.type = "boolean" /\ rs.kind = "bool" /\ u.variance = "Covariant" THEN u
    ELSE IF lp /\ l.type = "string" /\ rs.kind = "string" /\ u.variance = "Covariant" THEN u
    ELSE pushError(u, TypeMismatch(superTy, subTy))

\* Unifier::checkChildUnifierTypeMismatch(innerErrors, wantedType, givenType)
checkChildUnifierTypeMismatch(u, innerErrors, wanted, given) ==
    IF hasUnificationTooComplex(innerErrors) THEN pushError(u, UnificationTooComplex)
    ELSE IF innerErrors # <<>> THEN pushError(u, TypeMismatch(wanted, given))
    ELSE u

\* Unifier::checkChildUnifierTypeMismatch(innerErrors, prop, wantedType, givenType)
checkChildUnifierTypeMismatchProp(u, innerErrors, prop, wanted, given) ==
    IF hasUnificationTooComplex(innerErrors) THEN pushError(u, UnificationTooComplex)
    ELSE IF innerErrors # <<>>
    THEN pushError(u, TypeMismatchBecause(wanted, given, "Property is not compatible.",
                                          innerErrors[1]))
    ELSE u

\* getTableMatchTag: the first property whose type is a singleton, <<>> if none
RECURSIVE firstSingletonProp(_, _, _), getTableMatchTagN(_, _, _)
firstSingletonProp(ts, props, i) ==
    IF i > Len(PropNames) THEN <<>>
    ELSE IF /\ PropNames[i] \in DOMAIN props
            /\ ts[follow(ts, props[PropNames[i]].type)].tag = "Singleton"
    THEN <<PropNames[i], ts[follow(ts, props[PropNames[i]].type)]>>
    ELSE firstSingletonProp(ts, props, i + 1)

getTableMatchTagN(ts, ty, n) ==
    LET t == follow(ts, ty) IN
    IF ts[t].tag = "Table" THEN firstSingletonProp(ts, ts[t].props, 1)
    ELSE IF ts[t].tag = "Metatable" /\ n > 0 THEN getTableMatchTagN(ts, ts[t].table, n - 1)
    ELSE <<>>

getTableMatchTag(ts, ty) == getTableMatchTagN(ts, ty, Len(ts))

\* the first index i (0-based) of 0..n-1 satisfying the set of hits, or dflt
firstIndex(hits, dflt) ==
    IF hits = {} THEN dflt ELSE CHOOSE i \in hits : \A j \in hits : i <= j

\* unionStart after its local byTag
unionStart_byTag(u, subTy, cacheEnabled, opts, idx, byName, byTag) ==
    LET byCache == {i \in idx : cacheContains(u, opts[i + 1], subTy)}
        found == byName # {} \/ byTag # {}
    IN
    IF ~cfg.LuauUnionHeuristic THEN [startIndex |-> 0, foundHeuristic |-> FALSE]
    ELSE [foundHeuristic |-> found,
          startIndex |->
             IF byTag # {} THEN firstIndex(byTag, 0)
             ELSE IF byName # {} THEN firstIndex(byName, 0)
             ELSE IF cacheEnabled THEN firstIndex(byCache, 0)
             ELSE 0]

\* the union-supertype loop started at the first option, no heuristic
unionStart_first(u, superTy, subTy, cacheEnabled) ==
    [startIndex |-> 0, foundHeuristic |-> FALSE]

\* the start index of the union-supertype loop and whether a heuristic fired
unionStart(u, superTy, subTy, cacheEnabled) ==
    LET opts == u.types[superTy].options
        idx == 0..(Len(opts) - 1)
        subName == getName(u.types, subTy)
        byName == IF subName = "" THEN {}
                  ELSE {i \in idx : getName(u.types, opts[i + 1]) = subName}
        subTag == getTableMatchTag(u.types, subTy)
    IN  unionStart_byTag(u, subTy, cacheEnabled, opts, idx, byName,
            IF cfg.LuauExtendedUnionMismatchError /\ subTag # <<>>
            THEN {i \in idx : getTableMatchTag(u.types, opts[i + 1]) = subTag}
            ELSE {})

\* the start index of the intersection-subtype loop
intersectionStart(u, superTy, subTy, cacheEnabled) ==
    LET parts == u.types[subTy].parts
        byCache == {i \in 0..(Len(parts) - 1) : cacheContains(u, superTy, parts[i + 1])}
    IN IF cacheEnabled THEN firstIndex(byCache, 0) ELSE 0

\* the table branch of tryUnify_ after tryUnifyTables (t): a clean result is cached
tryUnify_TypeId_tables(superTy, subTy, cacheEnabled, t) ==
    IF cacheEnabled /\ t.errors = <<>>
    THEN cacheResult(t, superTy, subTy)
    ELSE t

\* the subTy-free branch of tryUnify_ after the promotion of type levels (u2)
tryUnify_TypeId_subFree_u2(superTy, subTy, subLevel, u2) ==
    LET superLevel == getMutableLevel(u2.types, superTy)
        u3 == IF superLevel # None
                 /\ ~subsumes(u2.types[superLevel].level, subLevel)
              THEN [logType(u2, superTy) EXCEPT !.types[superLevel].level = subLevel]
              ELSE u2
    IN bindType(u3, subTy, superTy)

\* the subTy-free branch of tryUnify_ after occursCheck(subTy, superTy) (u1)
tryUnify_TypeId_subFree(superTy, subTy, L, subLevel, u1) ==
    IF L.tag = "Generic" /\ ~subsumes(L.level, subLevel)
    THEN pushError(u1, GenericError("Generic supertype escaping scope"))
    ELSE IF u1.types[subTy].tag # "Error"
    THEN tryUnify_TypeId_subFree_u2(superTy, subTy, subLevel, IF cfg.LuauProperTypeLevels
                                                       THEN promoteTypeLevels(u1, subLevel, superTy)
                                                       ELSE u1)
    ELSE u1

\* the superTy-free branch without the test for a generic subtype
tryUnify_TypeId_superFree_noEscape(superTy, subTy, L, R, u1) == bindType(u1, superTy, subTy)

\* the superTy-free branch of tryUnify_ after occursCheck(superTy, subTy) (u1)
tryUnify_TypeId_superFree(superTy, subTy, L, R, u1) ==
    LET superLevel == L.level
        rightLevel == getMutableLevel(u1.types, subTy)
    IN
    IF R.tag = "Generic" /\ ~subsumes(R.level, superLevel)
    THEN pushError(u1, GenericError("Generic subtype escaping scope"))
    ELSE IF u1.types[superTy].tag # "Error"
    THEN LET u2 == IF cfg.LuauProperTypeLevels
                   THEN promoteTypeLevels(u1, superLevel, subTy)
                   ELSE IF rightLevel # None
                           /\ ~subsumes(u1.types[rightLevel].level, superLevel)
                   THEN [u1 EXCEPT !.types[rightLevel].level = superLevel]
                   ELSE u1
         IN bindType(u2, superTy, subTy)
    ELSE u1

\* the union-supertype branch of tryUnify_ after the start index is chosen (st)
tryUnify_TypeId_superUnion(isFunctionCall, superTy, subTy, p, st) ==
    unionSuperLoop(p, superTy, subTy, isFunctionCall, 0,
                   [startIndex |-> st.startIndex,
                    foundHeuristic |-> st.foundHeuristic,
                    found |-> FALSE, tooComplex |-> FALSE,
                    failedOptionCount |-> 0, failedOption |-> <<>>], p)

\* the both-free branch that gives subTy the level of superTy
tryUnify_TypeId_bindSuper_raised(superTy, subTy, L, R, u2) ==
    [bindType(u2, superTy, subTy) EXCEPT !.types[subTy].level = L.level]

\* the both-free branch of tryUnify_ that binds superTy, after occursCheck(superTy, subTy) (u2)
tryUnify_TypeId_bindSuper(superTy, subTy, L, R, u2) ==
    LET u3 == [u2 EXCEPT !.types[subTy].level = minLevel(R.level, L.level)]
    IN IF ~cfg.LuauErrorRecoveryType
       THEN [u3 EXCEPT !.types[superTy] = BoundTypeVar(subTy)]
       ELSE IF u3.types[superTy].tag # "Error" THEN bindType(u3, superTy, subTy)
       ELSE u3

\* the branch of the if/else-if chain of tryUnify_ that followed superTy and subTy select
tryUnify_TypeId_branch(u, superTy, subTy, cacheEnabled) ==
    LET L == u.types[superTy]
        R == u.types[subTy]
        l == L.tag = "Free"
        r == R.tag = "Free"
    IN
    IF cfg.LuauTypeInferIterationLimit > 0 /\ cfg.LuauTypeInferIterationLimit < u.iterationCount
    THEN "tooComplex"
    ELSE IF identical(superTy, subTy) THEN "identical"
    ELSE IF l /\ r /\ subsumes(L.level, R.level) THEN "bindSub"
    ELSE IF l /\ r THEN "bindSuper"
    ELSE IF l THEN "superFree"
    ELSE IF r THEN "subFree"
    ELSE IF L.tag \in {"Error", "Any"} THEN "superAny"
    ELSE IF R.tag \in {"Error", "Any"} THEN "subAny"
    ELSE IF cacheEnabled /\ cacheContains(u, superTy, subTy) THEN "cached"
    ELSE IF haveSeen(u, superTy, subTy) THEN "seen"
    ELSE IF R.tag = "Union" THEN "subUnion"
    ELSE IF L.tag = "Union" THEN "superUnion"
    ELSE IF L.tag = "Intersection" THEN "superIntersection"
    ELSE IF R.tag = "Intersection" THEN "subIntersection"
    ELSE IF L.tag = "Primitive" /\ R.tag = "Primitive" THEN "primitives"
    ELSE IF cfg.LuauSingletonTypes /\ L.tag \in {"Primitive", "Singleton"}
            /\ R.tag = "Singleton"
    THEN "singletons"
    ELSE IF L.tag = "Function" /\ R.tag = "Function" THEN "functions"
    ELSE IF L.tag = "Table" /\ R.tag = "Table" THEN "tables"
    ELSE IF L.tag = "Metatable" THEN "superMetatable"
    ELSE IF R.tag = "Metatable" THEN "subMetatable"
    ELSE IF L.tag = "Class" THEN "superClass"
    ELSE IF R.tag = "Class" THEN "subClass"
    ELSE "mismatch"

\* Unifier::tryUnify_(TypeId superTy, TypeId subTy, bool isFunctionCall, bool isIntersection)
tryUnify_TypeId(u0, superTy0, subTy0, isFunctionCall, isIntersection) ==
    LET u == [u0 EXCEPT !.iterationCount = @ + 1]
        superTy == follow(u.types, superTy0)
        subTy == follow(u.types, subTy0)
        L == u.types[superTy]
        R == u.types[subTy]
        cacheEnabled == ~isFunctionCall /\ ~isIntersection
        branch == tryUnify_TypeId_branch(u, superTy, subTy, cacheEnabled)
        p == pushSeen(u, superTy, subTy)
    IN
    CASE branch = "tooComplex" -> pushError(u, UnificationTooComplex)
      [] branch = "identical" -> u
      [] branch = "bindSub" ->
           LET u1 == occursCheck(u, subTy, superTy) IN
           IF u1.types[subTy].tag # "Error" THEN bindType(u1, subTy, superTy) ELSE u1
      [] branch = "bindSuper" ->
           LET u1 == IF ~cfg.LuauErrorRecoveryType THEN logType(u, superTy) ELSE u
           IN  tryUnify_TypeId_bindSuper(superTy, subTy, L, R, occursCheck(u1, superTy, subTy))
      [] branch = "superFree" ->
           tryUnify_TypeId_superFree(superTy, subTy, L, R, occursCheck(u, superTy, subTy))
      [] branch = "subFree" ->
           tryUnify_TypeId_subFree(superTy, subTy, L, R.level, occursCheck(u, subTy, superTy))
      [] branch = "superAny" -> tryUnifyWithAny(u, superTy, subTy)
      [] branch = "subAny" -> tryUnifyWithAny(u, subTy, superTy)
      [] branch \in {"cached", "seen"} -> u
      [] branch = "subUnion" ->
           popSeen(unionSubLoop(p, superTy, subTy, 1,
                                [failed |-> FALSE, tooComplex |-> FALSE, first |-> <<>>], p),
                   superTy, subTy)
      [] branch = "superUnion" ->
           popSeen(tryUnify_TypeId_superUnion(isFunctionCall, superTy, subTy, p,
                                              unionStart(p, superTy, subTy, cacheEnabled)),
                   superTy, subTy)
      [] branch = "superIntersection" ->
           popSeen(IF cfg.LuauExtendedTypeMismatchError
                   THEN intersectionSuperLoop(p, superTy, subTy, 1,
                                              [tooComplex |-> FALSE, first |-> <<>>], p)
                   ELSE intersectionSuperPlain(p, superTy, subTy, 1),
                   superTy, subTy)
      [] branch = "subIntersection" ->
           popSeen(intersectionSubLoop(p, superTy, subTy, isFunctionCall, 0,
                       [startIndex |-> intersectionStart(p, superTy, subTy, cacheEnabled),
                        found |-> FALSE, tooComplex |-> FALSE], p),
                   superTy, subTy)
      [] branch = "primitives" ->
           popSeen(tryUnifyPrimitives(p, superTy, subTy), superTy, subTy)
      [] branch = "singletons" ->
           popSeen(tryUnifySingletons(p, superTy, subTy), superTy, subTy)
      [] branch = "functions" ->
           popSeen(tryUnifyFunctions(p, superTy, subTy, isFunctionCall), superTy, subTy)
      [] branch = "tables" ->
           popSeen(tryUnify_TypeId_tables(superTy, subTy, cacheEnabled,
                                          tryUnifyTables(p, superTy, subTy, isIntersection)),
                   superTy, subTy)
      [] branch = "superMetatable" ->
           popSeen(tryUnifyWithMetatable(p, superTy, subTy, FALSE), superTy, subTy)
      [] branch = "subMetatable" ->
           popSeen(tryUnifyWithMetatable(p, subTy, superTy, TRUE), superTy, subTy)
      [] branch = "superClass" ->
           popSeen(tryUnifyWithClass(p, superTy, subTy, FALSE), superTy, subTy)
      [] branch = "subClass" ->
           popSeen(tryUnifyWithClass(p, superTy, subTy, TRUE), superTy, subTy)
      [] OTHER ->
           popSeen(pushError(p, TypeMismatch(superTy, subTy)), superTy, subTy)

\* the union-subtype rule trying the last option only and reporting nothing
unionSubLoop_lastOnly(u, superTy, subTy, i, acc, start) ==
    concatChild(u, tryUnify_(makeChildUnifier(u), superTy,
                             Last(start.types[subTy].options), FALSE, FALSE),
                "unionSubLast")

\* the loop of the union-subtype rule (A | B <: T), from option i
unionSubLoop(u, superTy, subTy, i, acc, start) ==
    LET opts == start.types[subTy].options
        count == Len(opts)
    IN
    IF i > count
    THEN IF acc.tooComplex THEN pushError(u, UnificationTooComplex)
         ELSE IF acc.failed
         THEN IF cfg.LuauExtendedTypeMismatchError /\ acc.first # <<>>
              THEN pushError(u, TypeMismatchBecause(superTy, subTy,
                                   "Not all union options are compatible.", acc.first[1]))
              ELSE pushError(u, TypeMismatch(superTy, subTy))
         ELSE u
    ELSE
      LET type == opts[i]
          c == makeChildUnifier(u)
          innerState == tryUnify_(c, superTy, type, FALSE, FALSE)
          tc == hasUnificationTooComplex(innerState.errors)
          bad == ~tc /\ innerState.errors # <<>>
          acc1 == [acc EXCEPT
                     !.tooComplex = @ \/ tc,
                     !.failed = @ \/ bad,
                     !.first = IF bad /\ cfg.LuauExtendedTypeMismatchError /\ @ = <<>>
                                  /\ ~isNil(innerState.types, type)
                               THEN <<innerState.errors[1]>> ELSE @]
          u1 == IF i # count
                THEN rollbackChild(u, innerState, "unionSub", c)
                ELSE concatChild(u, innerState, "unionSubLast")
      IN unionSubLoop(u1, superTy, subTy, i + 1, acc1, start)

\* the loop of the union-supertype rule (T <: A | B), at step i (0-based)
unionSuperLoop(u, superTy, subTy, isFunctionCall, i, acc, start) ==
    LET opts == start.types[superTy].options
        n == Len(opts)
    IN
    IF i >= n \/ acc.found
    THEN IF acc.tooComplex THEN pushError(u, UnificationTooComplex)
         ELSE IF ~acc.found
         THEN IF /\ cfg.LuauExtendedUnionMismatchError
                 /\ (acc.failedOptionCount = 1 \/ acc.foundHeuristic)
                 /\ acc.failedOption # <<>>
              THEN pushError(u, TypeMismatchBecause(superTy, subTy,
                        "None of the union options are compatible. For example:",
                        acc.failedOption[1]))
              ELSE IF cfg.LuauExtendedTypeMismatchError
              THEN pushError(u, TypeError("TypeMismatch", superTy, subTy,
                                          "none of the union options are compatible", ""))
              ELSE pushError(u, TypeMismatch(superTy, subTy))
         ELSE u
    ELSE
      LET type == opts[((i + acc.startIndex) % n) + 1]
          c == [makeChildUnifier(u) EXCEPT !.obs.tried = Append(@, <<superTy, type>>)]
          innerState == tryUnify_(c, type, subTy, isFunctionCall, FALSE)
          ok == innerState.errors = <<>>
          tc == hasUnificationTooComplex(innerState.errors)
          counted == ~ok /\ ~tc /\ cfg.LuauExtendedUnionMismatchError
                     /\ ~isNil(innerState.types, type)
          acc1 == [acc EXCEPT
                     !.found = ok,
                     !.tooComplex = @ \/ (~ok /\ tc),
                     !.failedOptionCount = IF counted THEN @ + 1 ELSE @,
                     !.failedOption = IF counted /\ @ = <<>>
                                      THEN <<innerState.errors[1]>> ELSE @]
          u1 == IF ok
                THEN concatChild(u, innerState, "unionSuper")
                ELSE rollbackChild(u, innerState, "unionSuper", c)
      IN unionSuperLoop(u1, superTy, subTy, isFunctionCall, i + 1, acc1, start)

\* the loop of the intersection-supertype rule (T <: A & B) with child unifiers
intersectionSuperLoop(u, superTy, subTy, i, acc, start) ==
    LET parts == start.types[superTy].parts IN
    IF i > Len(parts)
    THEN IF acc.tooComplex THEN pushError(u, UnificationTooComplex)
         ELSE IF acc.first # <<>>
         THEN pushError(u, TypeMismatchBecause(superTy, subTy,
                              "Not all intersection parts are compatible.", acc.first[1]))
         ELSE u
    ELSE
      LET c == makeChildUnifier(u)
          innerState == tryUnify_(c, parts[i], subTy, FALSE, TRUE)
          tc == hasUnificationTooComplex(innerState.errors)
          acc1 == [acc EXCEPT
                     !.tooComplex = @ \/ tc,
                     !.first = IF ~tc /\ innerState.errors # <<>> /\ @ = <<>>
                               THEN <<innerState.errors[1]>> ELSE @]
      IN intersectionSuperLoop(concatChild(u, innerState, "intersectionSuper"),
                               superTy, subTy, i + 1, acc1, start)

\* the intersection-supertype rule without child unifiers
intersectionSuperPlain(u, superTy, subTy, i) ==
    LET parts == u.types[superTy].parts IN
    IF i > Len(parts) THEN u
    ELSE intersectionSuperPlain(tryUnify_(u, parts[i], subTy, FALSE, TRUE),
                                superTy, subTy, i + 1)

\* the loop of the intersection-subtype rule (A & B <: T), at step i (0-based)
intersectionSubLoop(u, superTy, subTy, isFunctionCall, i, acc, start) ==
    LET parts == start.types[subTy].parts
        n == Len(parts)
    IN
    IF i >= n \/ acc.found
    THEN IF acc.tooComplex THEN pushError(u, UnificationTooComplex)
         ELSE IF ~acc.found
         THEN IF cfg.LuauExtendedTypeMismatchError
              THEN pushError(u, TypeError("TypeMismatch", superTy, subTy,
                                   "none of the intersection parts are compatible", ""))
              ELSE pushError(u, TypeMismatch(superTy, subTy))
         ELSE u
    ELSE
      LET type == parts[((i + acc.startIndex) % n) + 1]
          c == makeChildUnifier(u)
          innerState == tryUnify_(c, superTy, type, isFunctionCall, FALSE)
          ok == innerState.errors = <<>>
          acc1 == [acc EXCEPT
                     !.found = ok,
                     !.tooComplex = @ \/ (~ok /\ hasUnificationTooComplex(innerState.errors))]
          u1 == IF ok
                THEN concatChild(u, innerState, "intersectionSub")
                ELSE rollbackChild(u, innerState, "intersectionSub", c)
      IN intersectionSubLoop(u1, superTy, subTy, isFunctionCall, i + 1, acc1, start)

-----------------------------------------------------------------------------
(* WeirdIter: the cursor of the pack unifier *)

RECURSIVE weirdIterPack(_, _, _)
\* the constructor's loop: skip packs with an empty head and a tail
weirdIterPack(ps, id, n) ==
    IF ps[id].tag # "TypePack" THEN None
    ELSE IF n > 0 /\ ps[id].head = <<>> /\ ps[id].tail # None
    THEN weirdIterPack(ps, ps[id].tail, n - 1)
    ELSE id

\* WeirdIter::WeirdIter(packId)
WeirdIter(ps, id) ==
    [packId |-> id, pack |-> weirdIterPack(ps, id, Len(ps)), index |-> 0,
     growing |-> FALSE, level |-> MkLevel(0, 0)]

\* WeirdIter::good
good(ps, it) == it.pack # None /\ it.index < Len(ps[it.pack].head)

\* WeirdIter::operator*
deref(ps, it) == ps[it.pack].head[it.index + 1]

\* WeirdIter::advance
advance(ps, it) ==
    IF it.pack = None THEN it
    ELSE LET hs == Len(ps[it.pack].head)
             i1 == IF it.index < hs THEN it.index + 1 ELSE it.index
         IN IF it.growing \/ i1 < hs THEN [it EXCEPT !.index = i1]
            ELSE IF ps[it.pack].tail # None
            THEN LET nxt == followPack(ps, ps[it.pack].tail) IN
                 [it EXCEPT !.packId = nxt,
                            !.pack = IF ps[nxt].tag = "TypePack" THEN nxt ELSE None,
                            !.index = 0]
            ELSE [it EXCEPT !.index = i1]

\* WeirdIter::canGrow
canGrow(ps, it) == ps[it.packId].tag = "Free"

\* WeirdIter::grow: the arena after *asMutable(packId) = Bound(newTail)
growPacks(ps, it, newTail) == [ps EXCEPT ![it.packId] = BoundTypePack(newTail)]

\* WeirdIter::grow: the cursor after it
growIter(ps, it, newTail) ==
    [it EXCEPT !.level = ps[it.packId].level, !.packId = newTail, !.pack = newTail,
               !.index = 0, !.growing = TRUE]

-----------------------------------------------------------------------------
(* TypePackIterator, as tryUnifyVariadics uses it *)

RECURSIVE packIterSkip(_, _, _)
\* move to the next pack of the chain while the cursor is past the heads
packIterSkip(ps, it, n) ==
    IF it.pack = None \/ it.index < Len(ps[it.pack].head) \/ n = 0 THEN it
    ELSE LET nxt == IF ps[it.pack].tail # None THEN followPack(ps, ps[it.pack].tail) ELSE None
         IN packIterSkip(ps,
               [cur |-> nxt,
                pack |-> IF nxt # None /\ ps[nxt].tag = "TypePack" THEN nxt ELSE None,
                index |-> 0], n - 1)

\* begin(tp)
packIterBegin(ps, tp) ==
    LET c == followPack(ps, tp) IN
    packIterSkip(ps, [cur |-> c, pack |-> IF ps[c].tag = "TypePack" THEN c ELSE None,
                      index |-> 0], Len(ps))

\* ++it
packIterNext(ps, it) == packIterSkip(ps, [it EXCEPT !.index = @ + 1], Len(ps))

\* std::advance left out: the cursor stays at the first head
packIterAdvance_none(ps, it, n) == it

RECURSIVE packIterAdvance(_, _, _)
\* std::advance(it, n)
packIterAdvance(ps, it, n) ==
    IF n = 0 \/ it.pack = None THEN it ELSE packIterAdvance(ps, packIterNext(ps, it), n - 1)

-----------------------------------------------------------------------------
(* Unifier::tryUnify_ (TypePackId) *)

RECURSIVE skipEmptyPacks(_, _, _)
\* while the pack has an empty head and a tail, move to the tail
skipEmptyPacks(ps, tp, n) ==
    IF n > 0 /\ ps[tp].tag = "TypePack" /\ ps[tp].head = <<>> /\ ps[tp].tail # None
    THEN skipEmptyPacks(ps, followPack(ps, ps[tp].tail), n - 1)
    ELSE tp

\* TypeArena::freshType(level)
freshType(u, lv) == addType(u, FreeTypeVar(lv))

RECURSIVE packLoop(_, _, _, _, _), unifyLeftovers(_, _, _), variadicLoop(_, _, _, _)

\* the leftover heads left as they are
unifyLeftovers_skipped(u, it, n) == u

\* while (it.good()) { tryUnify_(errorRecoveryType, *it); it.advance(); }
unifyLeftovers(u, it, n) ==
    IF n = 0 \/ ~good(u.packs, it) THEN u
    ELSE LET u1 == tryUnify_(u, errorRecoveryType, deref(u.packs, it), FALSE, FALSE)
         IN unifyLeftovers(u1, advance(u1.packs, it), n - 1)

\* packLoop after its local g2
packLoop_g2(u, w, superTp, subTp, isFunctionCall, limit, g2) ==
    LET w1 == [w EXCEPT !.loopCount = @ + 1]
        supGood == good(g2.packs, w.superIter)
        subGood == good(g2.packs, w.subIter)
        \* the `continue` and the end of the body both reach the loop condition
        again(uu, ww) == IF w.noInfiniteGrowth THEN uu
                         ELSE packLoop(uu, ww, superTp, subTp, isFunctionCall)
    IN
    IF limit > 0 /\ w.loopCount >= limit THEN ice(u)
    ELSE IF supGood /\ subGood
    THEN LET u1 == tryUnify_(g2, deref(g2.packs, w.superIter), deref(g2.packs, w.subIter),
                             FALSE, FALSE)
             u2 == IF cfg.LuauExtendedFunctionMismatchError /\ u1.errors # <<>>
                       /\ u1.firstPackErrorPos = 0
                   THEN [u1 EXCEPT !.firstPackErrorPos = w1.loopCount]
                   ELSE u1
         IN again(u2, [w1 EXCEPT !.superIter = advance(u2.packs, @),
                                 !.subIter = advance(u2.packs, @)])
    ELSE IF ~supGood /\ ~subGood
    THEN LET lt == g2.packs[superTp].tail
             rt == g2.packs[subTp].tail
             lFreeTail == lt # None /\ g2.packs[followPack(g2.packs, lt)].tag = "Free"
             rFreeTail == rt # None /\ g2.packs[followPack(g2.packs, rt)].tag = "Free"
         IN IF lFreeTail /\ rFreeTail THEN tryUnifyPack_(g2, lt, rt, FALSE)
            ELSE IF lFreeTail THEN tryUnifyPack_(g2, lt, w.emptyTp, FALSE)
            ELSE IF rFreeTail THEN tryUnifyPack_(g2, rt, w.emptyTp, FALSE)
            ELSE g2
    ELSE IF canGrow(g2.packs, w.superIter) /\ canGrow(g2.packs, w.subIter)
    THEN \* superIter.pack->tail with both cursors on a free pack: pack is null
         ice(g2)
    ELSE IF canGrow(g2.packs, w.superIter)
    THEN LET a == addTypePack(g2, TypePack(<<>>, None)) IN
         again([a EXCEPT !.packs = growPacks(@, w.superIter, newTypePack(a))],
               [w1 EXCEPT !.superIter = growIter(a.packs, @, newTypePack(a))])
    ELSE IF canGrow(g2.packs, w.subIter)
    THEN LET a == addTypePack(g2, TypePack(<<>>, None)) IN
         again([a EXCEPT !.packs = growPacks(@, w.subIter, newTypePack(a))],
               [w1 EXCEPT !.subIter = growIter(a.packs, @, newTypePack(a))])
    ELSE IF supGood /\ isOptional(g2.types, deref(g2.packs, w.superIter))
    THEN again(g2, [w1 EXCEPT !.superIter = advance(g2.packs, @)])
    ELSE IF subGood /\ isOptional(g2.types, deref(g2.packs, w.subIter))
    THEN again(g2, [w1 EXCEPT !.subIter = advance(g2.packs, @)])
    ELSE IF supGood /\ cfg.mode # "Strict" /\ isAnyFollowed(g2.types, deref(g2.packs, w.superIter))
    THEN again(g2, [w1 EXCEPT !.superIter = advance(g2.packs, @)])
    ELSE IF g2.packs[w.superIter.packId].tag = "Variadic"
    THEN tryUnifyVariadics(g2, w.superIter.packId, w.subIter.packId, FALSE, w.subIter.index)
    ELSE IF g2.packs[w.subIter.packId].tag = "Variadic"
    THEN tryUnifyVariadics(g2, w.subIter.packId, w.superIter.packId, TRUE, w.superIter.index)
    ELSE IF ~isFunctionCall /\ subGood THEN g2
    ELSE LET expectedSize == size(g2.packs, superTp)
             actualSize == size(g2.packs, subTp)
             e == IF g2.ctx = "Result"
                  THEN CountMismatch(actualSize, expectedSize, g2.ctx)
                  ELSE CountMismatch(expectedSize, actualSize, g2.ctx)
             u1 == pushError(g2, e)
             u2 == unifyLeftovers(u1, w.superIter, Len(u1.types))
         IN unifyLeftovers(u2, w.subIter, Len(u2.types))

\* the loop that treats every call as a function call
packLoop_asCall(u, w, superTp, subTp, isFunctionCall) ==
    LET g1 == IF good(u.packs, w.superIter) /\ w.subIter.growing
              THEN LET f == freshType(u, w.subIter.level) IN
                   [f EXCEPT !.packs[w.subIter.pack].head = Append(@, newType(f)),
                             !.obs.passes = @ + 1]
              ELSE [u EXCEPT !.obs.passes = @ + 1]
    IN  packLoop_g2(u, w, superTp, subTp, TRUE, cfg.LuauTypeInferTypePackLoopLimit,
            IF good(g1.packs, w.subIter) /\ w.superIter.growing
            THEN LET f == freshType(g1, w.superIter.level) IN
                 [f EXCEPT !.packs[w.superIter.pack].head = Append(@, newType(f))]
            ELSE g1)

\* the do-while loop of the TypePack rule; w holds the two cursors, the loop
\* count and the locals computed before the loop
packLoop(u, w, superTp, subTp, isFunctionCall) ==
    LET limit == cfg.LuauTypeInferTypePackLoopLimit
        \* head.push_back(mkFreshType(level)) on the growing side
        g1 == IF good(u.packs, w.superIter) /\ w.subIter.growing
              THEN LET f == freshType(u, w.subIter.level) IN
                   [f EXCEPT !.packs[w.subIter.pack].head = Append(@, newType(f)),
                             !.obs.passes = @ + 1]
              ELSE [u EXCEPT !.obs.passes = @ + 1]
    IN  packLoop_g2(u, w, superTp, subTp, isFunctionCall, limit,
            IF good(g1.packs, w.subIter) /\ w.superIter.growing
            THEN LET f == freshType(g1, w.superIter.level) IN
                 [f EXCEPT !.packs[w.superIter.pack].head = Append(@, newType(f))]
            ELSE g1)

\* Unifier::tryUnify_(TypePackId superTp, TypePackId subTp, bool isFunctionCall)
tryUnify_TypePackId(u0, superTp0, subTp0, isFunctionCall) ==
    LET u == [u0 EXCEPT !.iterationCount = @ + 1]
        subTp == skipEmptyPacks(u.packs, followPack(u.packs, subTp0), Len(u.packs))
        superTp == skipEmptyPacks(u.packs, followPack(u.packs, superTp0), Len(u.packs))
        L == u.packs[superTp]
        R == u.packs[subTp]
    IN
    IF cfg.LuauTypeInferIterationLimit > 0 /\ cfg.LuauTypeInferIterationLimit < u.iterationCount
    THEN pushError(u, UnificationTooComplex)
    ELSE IF superTp = subTp THEN u
    ELSE IF L.tag = "Free"
    THEN LET u1 == occursCheckPack(u, superTp, subTp) IN
         IF u1.packs[superTp].tag # "Error" THEN bindPack(u1, superTp, subTp) ELSE u1
    ELSE IF R.tag = "Free"
    THEN LET u1 == occursCheckPack(u, subTp, superTp) IN
         IF u1.packs[subTp].tag # "Error" THEN bindPack(u1, subTp, superTp) ELSE u1
    ELSE IF L.tag = "Error" THEN tryUnifyWithAnyPack(u, superTp, subTp)
    ELSE IF R.tag = "Error" THEN tryUnifyWithAnyPack(u, subTp, superTp)
    ELSE IF L.tag = "Variadic" THEN tryUnifyVariadics(u, superTp, subTp, FALSE, 0)
    ELSE IF R.tag = "Variadic" THEN tryUnifyVariadics(u, subTp, superTp, TRUE, 0)
    ELSE IF L.tag = "TypePack" /\ R.tag = "TypePack"
    THEN LET superFlat == flatten(u.packs, superTp)
             subFlat == flatten(u.packs, subTp)
             noInfiniteGrowth ==
                /\ Len(superFlat.head) # Len(subFlat.head)
                /\ superFlat.tail # None /\ u.packs[superFlat.tail].tag = "Free"
                /\ subFlat.tail # None /\ u.packs[subFlat.tail].tag = "Free"
             a == addTypePack(u, TypePack(<<>>, None))
         IN packLoop(a, [superIter |-> WeirdIter(u.packs, superTp),
                         subIter |-> WeirdIter(u.packs, subTp),
                         loopCount |-> 0, emptyTp |-> newTypePack(a),
                         noInfiniteGrowth |-> noInfiniteGrowth],
                     superTp, subTp, isFunctionCall)
    ELSE pushError(u, GenericError("Failed to unify type packs"))

\* what one invocation of tryUnify_ did, u being the unifier record at its
\* entry and r the record at its return: it is counted, and when it found the
\* iteration counter over the limit it is recorded whether all it did was to
\* push UnificationTooComplex
tryUnify_observed(u, r) ==
    IF cfg.LuauTypeInferIterationLimit > 0
          /\ cfg.LuauTypeInferIterationLimit < u.iterationCount + 1
    THEN [r EXCEPT !.obs.invocations = @ + 1,
                   !.obs.overLimit = @ + 1,
                   !.obs.overLimitOk =
                       /\ @
                       /\ r.errors = Append(u.errors, UnificationTooComplex)
                       /\ r.types = u.types
                       /\ r.packs = u.packs
                       /\ r.log = u.log
                       /\ r.seen = u.seen
                       /\ r.obs.pushed = u.obs.pushed]
    ELSE [r EXCEPT !.obs.invocations = @ + 1]

\* overload resolution of Unifier::tryUnify_
tryUnify_overload(u, overload, super, sub, isFunctionCall, isIntersection) ==
    tryUnify_observed(u,
        IF overload = "TypeId"
        THEN tryUnify_TypeId(u, super, sub, isFunctionCall, isIntersection)
        ELSE tryUnify_TypePackId(u, super, sub, isFunctionCall))

\* the loop over the heads left out
variadicLoop_skipped(u, ty, it, reversed) == u

\* the loop of tryUnifyVariadics over the remaining heads of subTp
variadicLoop(u, ty, it, reversed) ==
    IF it.pack = None
    THEN \* rIter.tail()
         IF it.cur = None THEN u
         ELSE LET tail == followPack(u.packs, it.cur)
                  t == u.packs[tail]
              IN CASE t.tag = "Free" -> bindPack(u, tail, ty.superTp)
                   [] t.tag = "Variadic" -> tryUnify_(u, ty.ty, t.ty, FALSE, FALSE)
                   [] t.tag = "Generic" ->
                        pushError(u, GenericError("Cannot unify variadic and generic packs"))
                   [] t.tag = "Error" -> u
                   [] OTHER -> ice(u)
    ELSE LET h == u.packs[it.pack].head[it.index + 1]
             u1 == IF reversed
                   THEN tryUnify_([u EXCEPT !.obs.variadics = Append(@, <<h, ty.ty>>)],
                                  h, ty.ty, FALSE, FALSE)
                   ELSE tryUnify_([u EXCEPT !.obs.variadics = Append(@, <<ty.ty, h>>)],
                                  ty.ty, h, FALSE, FALSE)
         IN variadicLoop(u1, ty, packIterNext(u1.packs, it), reversed)

\* Unifier::tryUnifyVariadics
tryUnifyVariadics(u, superTp, subTp, reversed, subOffset) ==
    LET lv == u.packs[superTp]
        rv == u.packs[subTp]
    IN
    IF lv.tag # "Variadic" THEN ice(u)
    ELSE IF rv.tag = "Variadic"
    THEN IF reversed THEN tryUnify_(u, rv.ty, lv.ty, FALSE, FALSE)
         ELSE tryUnify_(u, lv.ty, rv.ty, FALSE, FALSE)
    ELSE IF rv.tag = "TypePack"
    THEN variadicLoop(u, [ty |-> lv.ty, superTp |-> superTp],
                      packIterAdvance(u.packs, packIterBegin(u.packs, subTp), subOffset),
                      reversed)
    ELSE pushError(u, GenericError("Failed to unify variadic packs"))

-----------------------------------------------------------------------------
(* tryUnifyWithAny *)

RECURSIVE queueTypePack(_, _, _, _), anyLoop(_, _, _, _)
\* queueTypePack after its local a
queueTypePack_a(st, anyTypePack, n, a) ==
    LET st1 == [st EXCEPT !.seenTp = @ \cup {a}]
        p == st.u.packs[a]
    IN
    IF a \in st.seenTp \/ n = 0 THEN st
    ELSE IF p.tag = "Free"
    THEN queueTypePack([st1 EXCEPT !.u = bindPack(st.u, a, anyTypePack)], a, anyTypePack, n - 1)
    ELSE IF p.tag = "TypePack"
    THEN LET st2 == [st1 EXCEPT !.queue = @ \o p.head] IN
         IF p.tail # None THEN queueTypePack(st2, p.tail, anyTypePack, n - 1) ELSE st2
    ELSE queueTypePack(st1, a, anyTypePack, n - 1)

\* queueTypePack(queue, seenTypePacks, state, a, anyTypePack); st = [u, queue, seenTp, seenTy]
queueTypePack(st, a0, anyTypePack, n) ==
    queueTypePack_a(st, anyTypePack, n, followPack(st.u.packs, a0))

\* anyLoop after its local ty
anyLoop_ty(st, anyTy, anyTypePack, n, ty) ==
    LET popped == [st EXCEPT !.queue = Front(@)]
        st1 == [popped EXCEPT !.seenTy = @ \cup {ty}]
        t == st.u.types[ty]
        fuel == Len(st.u.packs) + 2
    IN
    IF ty \in st.seenTy THEN anyLoop(popped, anyTy, anyTypePack, n - 1)
    ELSE CASE t.tag = "Free" ->
                anyLoop([st1 EXCEPT !.u = bindType(st.u, ty, anyTy)], anyTy, anyTypePack, n - 1)
           [] t.tag = "Function" ->
                anyLoop(queueTypePack(queueTypePack(st1, t.argTypes, anyTypePack, fuel),
                                      t.retType, anyTypePack, fuel),
                        anyTy, anyTypePack, n - 1)
           [] t.tag = "Table" ->
                anyLoop([st1 EXCEPT !.queue =
                            @ \o [i \in 1..Len(propItems(t.props, 1)) |->
                                      propItems(t.props, 1)[i][2]] \o t.indexer],
                        anyTy, anyTypePack, n - 1)
           [] t.tag = "Metatable" ->
                anyLoop([st1 EXCEPT !.queue = @ \o <<t.table, t.metatable>>],
                        anyTy, anyTypePack, n - 1)
           [] t.tag = "Union" ->
                anyLoop([st1 EXCEPT !.queue = @ \o t.options], anyTy, anyTypePack, n - 1)
           [] t.tag = "Intersection" ->
                anyLoop([st1 EXCEPT !.queue = @ \o t.parts], anyTy, anyTypePack, n - 1)
           [] OTHER -> anyLoop(st1, anyTy, anyTypePack, n - 1)

\* the static tryUnifyWithAny(queue, state, seen, seenTypePacks, anyType, anyTypePack)
anyLoop(st, anyTy, anyTypePack, n) ==
    IF st.queue = <<>> \/ n = 0 THEN st.u
    ELSE
      anyLoop_ty(st, anyTy, anyTypePack, n, follow(st.u.types, Last(st.queue)))

\* a bound on the steps of the work list: every node is handled at most once
anyFuel(u) == 4 * (Len(u.types) + Len(u.packs)) + 4

\* any and the error type reported as a mismatch
tryUnifyWithAny_mismatch(u, any, ty) == pushError(u, TypeMismatch(any, ty))

\* Unifier::tryUnifyWithAny(TypeId any, TypeId ty)
tryUnifyWithAny(u, any, ty) ==
    IF u.types[ty].tag \in {"Primitive", "Any", "Class"} THEN u
    ELSE LET a1 == addTypePack(u, VariadicTypePack(anyType))
             anyTypePack == newTypePack(a1)
             a2 == IF u.types[any].tag = "Any" THEN a1 ELSE addTypePack(a1, ErrorTypePack)
             anyTP == newTypePack(a2)
         IN anyLoop([u |-> a2, queue |-> <<ty>>, seenTy |-> {}, seenTp |-> {}],
                    anyType, anyTP, anyFuel(a2))

\* Unifier::tryUnifyWithAny(TypePackId any, TypePackId ty)
tryUnifyWithAnyPack(u, any, ty) ==
    LET st == queueTypePack([u |-> u, queue |-> <<>>, seenTy |-> {}, seenTp |-> {}],
                            ty, any, Len(u.packs) + 2)
    IN anyLoop(st, errorRecoveryType, any, anyFuel(u))

-----------------------------------------------------------------------------
(* Unifier::tryUnifyFunctions *)

RECURSIVE pushSeenGenerics(_, _, _, _, _), popSeenGenerics(_, _, _, _)
\* for (i = 0; i < numGenerics; i++) log.pushSeen(lf->generics[i], rf->generics[i])
pushSeenGenerics(u, lg, rg, i, n) ==
    IF i > n THEN u ELSE pushSeenGenerics(pushSeen(u, lg[i], rg[i]), lg, rg, i + 1, n)

\* the generics left on the seen stack
popSeenGenerics_skipped(u, lg, rg, i) == u

\* for (i = numGenerics - 1; 0 <= i; i--) log.popSeen(lf->generics[i], rf->generics[i])
popSeenGenerics(u, lg, rg, i) ==
    IF i < 1 THEN u ELSE popSeenGenerics(popSeen(u, lg[i], rg[i]), lg, rg, i - 1)

\* the error tryUnifyFunctions reports for the argument packs of the child
functionArgError(u, inner, superTy, subTy) ==
    IF hasUnificationTooComplex(inner.errors) THEN pushError(u, UnificationTooComplex)
    ELSE IF inner.errors # <<>> /\ inner.firstPackErrorPos # 0
    THEN pushError(u, TypeMismatchBecause(superTy, subTy, "Argument type is not compatible.",
                                          inner.errors[1]))
    ELSE IF inner.errors # <<>>
    THEN pushError(u, TypeMismatchBecause(superTy, subTy, "", inner.errors[1]))
    ELSE u

\* the errors of the return packs not reported
functionRetError_silent(u, inner, superTy, subTy, ret) == u

\* the error tryUnifyFunctions reports for the return packs of the child
functionRetError(u, inner, superTy, subTy, ret) ==
    IF hasUnificationTooComplex(inner.errors) THEN pushError(u, UnificationTooComplex)
    ELSE IF inner.errors # <<>> /\ size(inner.packs, ret) = 1 /\ finite(inner.packs, ret)
    THEN pushError(u, TypeMismatchBecause(superTy, subTy, "Return type is not compatible.",
                                          inner.errors[1]))
    ELSE IF inner.errors # <<>> /\ inner.firstPackErrorPos # 0
    THEN pushError(u, TypeMismatchBecause(superTy, subTy, "Return #n type is not compatible.",
                                          inner.errors[1]))
    ELSE IF inner.errors # <<>>
    THEN pushError(u, TypeMismatchBecause(superTy, subTy, "", inner.errors[1]))
    ELSE u

\* the subtype function given the return pack of the supertype function
propagateDefinition_sharesReturn(u, superTy, subTy) ==
    IF u.types[superTy].tag = "Function" /\ u.types[subTy].tag = "Function"
    THEN [u EXCEPT !.types[subTy].retType = u.types[superTy].retType]
    ELSE u

\* the definition of one function is copied to the other
propagateDefinition(u, superTy, subTy) ==
    LET lf == u.types[superTy]
        rf == u.types[subTy]
    IN IF lf.tag # "Function" \/ rf.tag # "Function" THEN u
       ELSE IF lf.definition /\ ~rf.definition /\ ~rf.persistent
       THEN [u EXCEPT !.types[subTy].definition = lf.definition]
       ELSE IF ~lf.definition /\ rf.definition /\ ~lf.persistent
       THEN [u EXCEPT !.types[superTy].definition = rf.definition]
       ELSE u

\* tryUnifyFunctions after its local body
tryUnifyFunctions_body(u, superTy, subTy, lf, rf, numGenerics, context, body) ==
    LET d == [propagateDefinition(body, superTy, subTy) EXCEPT !.ctx = context]
    IN
    IF lf.tag # "Function" \/ rf.tag # "Function" THEN ice(u)
    ELSE popSeenGenerics(d, lf.generics, rf.generics, numGenerics)

\* tryUnifyFunctions after its local u3
tryUnifyFunctions_u3(u, superTy, subTy, isFunctionCall, lf, rf, numGenerics, u3) ==
    LET context == u.ctx
    IN  tryUnifyFunctions_body(u, superTy, subTy, lf, rf, numGenerics, context,
            IF ~isFunctionCall
            THEN IF cfg.LuauExtendedFunctionMismatchError
                 THEN LET c == [makeChildUnifier(u3) EXCEPT !.ctx = "Arg"]
                          i1 == tryUnifyPack_(c, rf.argTypes, lf.argTypes, isFunctionCall)
                          reported == i1.errors # <<>>
                          p1 == functionArgError(resume(u3, i1), i1, superTy, subTy)
                          i2 == tryUnifyPack_([i1 EXCEPT !.ctx = "Result"],
                                              lf.retType, rf.retType, FALSE)
                          p2 == IF ~reported
                                THEN functionRetError(resume(p1, i2), i2, superTy, subTy, lf.retType)
                                ELSE resume(p1, i2)
                      IN concatChild(p2, i2, "function")
                 ELSE LET c == makeChildUnifier(u3)
                          i1 == tryUnifyPack_(c, rf.argTypes, lf.argTypes, isFunctionCall)
                          i2 == tryUnifyPack_(i1, lf.retType, rf.retType, FALSE)
                          p == checkChildUnifierTypeMismatch(resume(u3, i2), i2.errors,
                                                             superTy, subTy)
                      IN concatChild(p, i2, "function")
            ELSE LET a == tryUnifyPack_([u3 EXCEPT !.ctx = "Arg"], rf.argTypes, lf.argTypes,
                                        isFunctionCall)
                 IN tryUnifyPack_([a EXCEPT !.ctx = "Result"], lf.retType, rf.retType, FALSE))

tryUnifyFunctions(u, superTy, subTy, isFunctionCall) ==
    LET lf == u.types[superTy]
        rf == u.types[subTy]
        numGenerics == Min2(Len(lf.generics), Len(rf.generics))
        u1 == IF Len(lf.generics) # Len(rf.generics)
              THEN IF cfg.LuauExtendedFunctionMismatchError
                   THEN pushError(u, TypeError("TypeMismatch", superTy, subTy,
                                      "different number of generic type parameters", ""))
                   ELSE pushError(u, TypeMismatch(superTy, subTy))
              ELSE u
        u2 == IF Len(lf.genericPacks) # Len(rf.genericPacks)
              THEN IF cfg.LuauExtendedFunctionMismatchError
                   THEN pushError(u1, TypeError("TypeMismatch", superTy, subTy,
                                      "different number of generic type pack parameters", ""))
                   ELSE pushError(u1, TypeMismatch(superTy, subTy))
              ELSE u1
    IN  tryUnifyFunctions_u3(u, superTy, subTy, isFunctionCall, lf, rf, numGenerics,
            pushSeenGenerics(u2, lf.generics, rf.generics, 1, numGenerics))

-----------------------------------------------------------------------------
(* Unifier::tryUnifyWithMetatable and Unifier::tryUnifyWithClass *)

tryUnifyWithMetatable(u, metatable, other, reversed) ==
    LET lhs == u.types[metatable]
        rhs == u.types[other]
        wanted == IF reversed THEN other ELSE metatable
        given == IF reversed THEN metatable ELSE other
        mismatchError == TypeMismatch(wanted, given)
    IN
    IF lhs.tag # "Metatable" THEN ice(u)
    ELSE IF rhs.tag = "Metatable"
    THEN LET c == makeChildUnifier(u)
             i1 == tryUnify_(c, lhs.table, rhs.table, FALSE, FALSE)
             i2 == tryUnify_(i1, i1.types[metatable].metatable, i1.types[other].metatable,
                             FALSE, FALSE)
             r == resume(u, i2)
             p == IF cfg.LuauExtendedTypeMismatchError
                  THEN IF hasUnificationTooComplex(i2.errors)
                       THEN pushError(r, UnificationTooComplex)
                       ELSE IF i2.errors # <<>>
                       THEN pushError(r, TypeMismatchBecause(wanted, given, "", i2.errors[1]))
                       ELSE r
                  ELSE checkChildUnifierTypeMismatch(r, i2.errors, wanted, given)
         IN concatChild(p, i2, "metatable")
    ELSE IF rhs.tag = "Table"
    THEN IF rhs.state = "Free"
         THEN LET u1 == tryUnify_(u, lhs.table, other, FALSE, FALSE) IN
              [u1 EXCEPT !.types[other].boundTo = metatable]
         ELSE pushError(u, mismatchError)
    ELSE IF rhs.tag \in {"Any", "Error"} THEN u
    ELSE pushError(u, mismatchError)

RECURSIVE classPropLoop(_, _, _, _, _, _)
\* the loop of tryUnifyWithClass over the properties of the free table, from
\* name i; st = [u, ok]
classPropLoop(st, superTy, subTy, reversed, i, start) ==
    LET u == st.u
        props == u.types[subTy].props
    IN
    IF i > Len(PropNames) THEN st
    ELSE IF PropNames[i] \notin DOMAIN props
    THEN classPropLoop(st, superTy, subTy, reversed, i + 1, start)
    ELSE
      LET propName == PropNames[i]
          prop == props[propName]
          classProp == lookupClassProp(u.types, superTy, propName)
      IN
      IF classProp = None
      THEN LET e == pushError(u, UnknownProperty(superTy, propName))
               u1 == IF ~cfg.LuauExtendedClassMismatchError
                     THEN tryUnify_(e, prop.type, errorRecoveryType, FALSE, FALSE)
                     ELSE e
           IN classPropLoop([u |-> u1, ok |-> FALSE], superTy, subTy, reversed, i + 1, start)
      ELSE IF cfg.LuauExtendedClassMismatchError
      THEN LET c == makeChildUnifier(u)
               innerState == tryUnify_(c, prop.type, classProp, FALSE, FALSE)
               p == checkChildUnifierTypeMismatchProp(
                        resume(u, innerState), innerState.errors, propName,
                        IF reversed THEN subTy ELSE superTy,
                        IF reversed THEN superTy ELSE subTy)
           IN IF innerState.errors = <<>>
              THEN classPropLoop([u |-> concatChild(p, innerState, "classProp"), ok |-> st.ok],
                                 superTy, subTy, reversed, i + 1, start)
              ELSE classPropLoop([u |-> rollbackChild(p, innerState, "classProp", c),
                                  ok |-> FALSE],
                                 superTy, subTy, reversed, i + 1, start)
      ELSE classPropLoop([st EXCEPT !.u = tryUnify_(u, prop.type, classProp, FALSE, FALSE)],
                         superTy, subTy, reversed, i + 1, start)

\* tryUnifyWithClass after its local st
tryUnifyWithClass_st(superTy, subTy, st) ==
    LET u1 == IF st.u.types[subTy].indexer # NoIndexer
              THEN pushError(st.u, GenericError("Class does not have an indexer"))
              ELSE st.u
        ok == st.ok /\ st.u.types[subTy].indexer = NoIndexer
    IN IF ~ok THEN u1
       ELSE [logTable(u1, subTy) EXCEPT !.types[subTy].boundTo = superTy]

tryUnifyWithClass(u, superTy0, subTy0, reversed) ==
    LET superTy == IF reversed THEN subTy0 ELSE superTy0
        subTy == IF reversed THEN superTy0 ELSE subTy0
        fail == IF ~reversed THEN pushError(u, TypeMismatch(superTy, subTy))
                ELSE pushError(u, TypeMismatch(subTy, superTy))
        superClass == u.types[superTy]
        sub == u.types[subTy]
    IN
    IF superClass.tag # "Class" THEN ice(u)
    ELSE IF sub.tag = "Class"
    THEN IF u.variance = "Covariant"
         THEN IF ~isSubclass(u.types, subTy, superTy) THEN fail ELSE u
         ELSE IF subTy # superTy THEN fail ELSE u
    ELSE IF sub.tag = "Table"
    THEN IF sub.state # "Free" THEN fail
         ELSE tryUnifyWithClass_st(superTy, subTy,
                  classPropLoop([u |-> u, ok |-> TRUE], superTy, subTy, reversed, 1, u))
    ELSE fail

-----------------------------------------------------------------------------
(* Unifier::tryUnifyTables *)

\* the names of `props`, in the order of the map, that satisfy nothing of
\* `other` and are neither optional nor any (when anyOk)
RECURSIVE unmatchedProps(_, _, _, _, _)
unmatchedProps(ts, props, other, anyOk, i) ==
    IF i > Len(PropNames) THEN <<>>
    ELSE LET nm == PropNames[i]
             rest == unmatchedProps(ts, props, other, anyOk, i + 1)
         IN IF /\ nm \in DOMAIN props
               /\ nm \notin DOMAIN other
               /\ ~isOptional(ts, props[nm].type)
               /\ ~(anyOk /\ isAnyFollowed(ts, props[nm].type))
            THEN <<nm>> \o rest
            ELSE rest

\* Unifier::tryUnify(const TableIndexer&, const TableIndexer&)
tryUnifyIndexers(u, superIndexer, subIndexer) ==
    LET u1 == tryUnify_(u, superIndexer[1], subIndexer[1], FALSE, FALSE)
    IN tryUnify_(u1, superIndexer[2], subIndexer[2], FALSE, FALSE)

\* the child of a property pair adopted whether or not it has errors
tablePairChild_concat(u, a, b, name, left, right, site) ==
    LET c == [makeChildUnifier(u) EXCEPT !.variance = "Invariant"]
        innerState == tryUnify_(c, a, b, FALSE, FALSE)
        r == resume(u, innerState)
        p == IF cfg.LuauExtendedTypeMismatchError
             THEN checkChildUnifierTypeMismatchProp(r, innerState.errors, name, left, right)
             ELSE checkChildUnifierTypeMismatch(r, innerState.errors, left, right)
    IN concatChild(p, innerState, site)

\* one pair of property types of tryUnifyTables: a child unifier with
\* variance Invariant, adopted when it has no errors and rolled back otherwise
tablePairChild(u, a, b, name, left, right, site) ==
    LET c == [makeChildUnifier(u) EXCEPT !.variance = "Invariant"]
        innerState == tryUnify_(c, a, b, FALSE, FALSE)
        r == resume(u, innerState)
        p == IF cfg.LuauExtendedTypeMismatchError
             THEN checkChildUnifierTypeMismatchProp(r, innerState.errors, name, left, right)
             ELSE checkChildUnifierTypeMismatch(r, innerState.errors, left, right)
    IN IF innerState.errors = <<>>
       THEN concatChild(p, innerState, site)
       ELSE rollbackChild(p, innerState, site, c)

RECURSIVE deeplyOptional(_, _, _), deeplyOptionalProps(_, _, _, _)
\* deeplyOptional after its local ty
deeplyOptional_ty(u, seenMap, ty) ==
    LET plain == addType(u, UnionTypeVar(<<nilType, ty>>))
    IN
    IF u.types[ty].tag = "Any" THEN [u |-> u, id |-> ty]
    ELSE IF isOptional(u.types, ty) THEN [u |-> u, id |-> ty]
    ELSE IF u.types[ty].tag = "Table"
    THEN IF ty \in DOMAIN seenMap THEN [u |-> u, id |-> seenMap[ty]]
         ELSE LET u1 == addType(u, u.types[ty])
                  result == newType(u1)
                  u2 == deeplyOptionalProps(u1, result, seenMap @@ (ty :> result), 1)
                  u3 == addType(u2, UnionTypeVar(<<nilType, result>>))
              IN [u |-> u3, id |-> newType(u3)]
    ELSE [u |-> plain, id |-> newType(plain)]

\* Unifier::deeplyOptional; the result is [u, id]
deeplyOptional(u, ty0, seenMap) ==
    deeplyOptional_ty(u, seenMap, follow(u.types, ty0))

deeplyOptionalProps(u, result, seenMap, i) ==
    IF i > Len(PropNames) THEN u
    ELSE IF PropNames[i] \notin DOMAIN u.types[result].props
    THEN deeplyOptionalProps(u, result, seenMap, i + 1)
    ELSE LET r == deeplyOptional(u, u.types[result].props[PropNames[i]].type, seenMap)
         IN deeplyOptionalProps(
                [r.u EXCEPT !.types[result].props[PropNames[i]].type = r.id],
                result, seenMap, i + 1)

\* the assignment to props[name] left out
setProp_dropped(props, name, prop) == props

\* props[name] = prop
setProp(props, name, prop) ==
    [n \in DOMAIN props \cup {name} |-> IF n = name THEN prop ELSE props[n]]

\* the loop over the properties of the supertype left out
superPropLoop_skipped(st, left, right, i) == st

RECURSIVE superPropLoop(_, _, _, _), subPropLoop(_, _, _, _)
\* for (const auto& [name, prop] : lt->props); st = [u, missing]
superPropLoop(st, left, right, i) ==
    LET u == st.u
        lt == u.types[left]
        rt == u.types[right]
        name == PropNames[i]
        prop == lt.props[name]
        next(s) == superPropLoop(s, left, right, i + 1)
    IN
    IF i > Len(PropNames) THEN st
    ELSE IF lt.tag # "Table" \/ rt.tag # "Table" THEN st
    ELSE IF name \notin DOMAIN lt.props THEN next(st)
    ELSE IF name \in DOMAIN rt.props
    THEN next([st EXCEPT !.u = tablePairChild(u, prop.type, rt.props[name].type,
                                               name, left, right, "tableProp")])
    ELSE IF rt.indexer # NoIndexer /\ isString(u.types, rt.indexer[1])
    THEN next([st EXCEPT !.u = tablePairChild(u, prop.type, rt.indexer[2],
                                               name, left, right, "tableProp")])
    ELSE IF isOptional(u.types, prop.type) \/ isAnyFollowed(u.types, prop.type)
    THEN next(st)
    ELSE IF rt.state = "Free"
    THEN next([st EXCEPT !.u = [logTable(u, right) EXCEPT
                                   !.types[right].props = setProp(@, name, prop)]])
    ELSE next([st EXCEPT !.missing = Append(@, name)])

\* for (const auto& [name, prop] : rt->props); st = [u, extra]
subPropLoop(st, left, right, i) ==
    LET u == st.u
        lt == u.types[left]
        rt == u.types[right]
        name == PropNames[i]
        prop == rt.props[name]
        next(s) == subPropLoop(s, left, right, i + 1)
        opt == deeplyOptional(u, prop.type, <<>>)
    IN
    IF i > Len(PropNames) THEN st
    ELSE IF lt.tag # "Table" \/ rt.tag # "Table" THEN st
    ELSE IF name \notin DOMAIN rt.props THEN next(st)
    ELSE IF name \in DOMAIN lt.props THEN next(st)
    ELSE IF lt.indexer # NoIndexer /\ isString(u.types, lt.indexer[1])
    THEN next([st EXCEPT !.u = tablePairChild(u, prop.type, lt.indexer[2],
                                               name, left, right, "tableProp")])
    ELSE IF lt.state = "Unsealed"
    THEN next([st EXCEPT !.u = [logType(opt.u, left) EXCEPT
                  !.types[left].props = setProp(@, name, [prop EXCEPT !.type = opt.id])]])
    ELSE IF u.variance = "Covariant" THEN next(st)
    ELSE IF isOptional(u.types, prop.type) \/ isAnyFollowed(u.types, prop.type)
    THEN next(st)
    ELSE IF lt.state = "Free"
    THEN next([st EXCEPT !.u = [logType(u, left) EXCEPT
                                   !.types[left].props = setProp(@, name, prop)]])
    ELSE next([st EXCEPT !.extra = Append(@, name)])

\* tableIndexers giving the indexer to a table of any state
tableIndexers_anyState(u, left, right) ==
    LET lt == u.types[left]
        rt == u.types[right]
    IN
    IF lt.indexer # NoIndexer /\ rt.indexer = NoIndexer
    THEN [logType(u, right) EXCEPT !.types[right].indexer = lt.indexer]
    ELSE IF rt.indexer # NoIndexer /\ lt.indexer = NoIndexer
    THEN [logType(u, left) EXCEPT !.types[left].indexer = rt.indexer]
    ELSE u

\* the indexers of the two tables in tryUnifyTables
tableIndexers(u, left, right) ==
    LET lt == u.types[left]
        rt == u.types[right]
    IN
    IF lt.indexer # NoIndexer /\ rt.indexer # NoIndexer
    THEN LET c == [makeChildUnifier(u) EXCEPT !.variance = "Invariant"]
             innerState == tryUnifyIndexers(c, lt.indexer, rt.indexer)
             p == checkChildUnifierTypeMismatch(resume(u, innerState), innerState.errors,
                                                left, right)
         IN IF innerState.errors = <<>>
            THEN concatChild(p, innerState, "tableIndexer")
            ELSE rollbackChild(p, innerState, "tableIndexer", c)
    ELSE IF lt.indexer # NoIndexer
    THEN IF rt.state \in {"Unsealed", "Free"}
         THEN [logType(u, right) EXCEPT !.types[right].indexer = lt.indexer]
         ELSE u
    ELSE IF rt.indexer # NoIndexer /\ u.variance = "Invariant"
    THEN IF lt.state \in {"Unsealed", "Free"}
         THEN [logType(u, left) EXCEPT !.types[left].indexer = rt.indexer]
         ELSE u
    ELSE u

\* the test for a table bound while its properties were unified left out
tableWasBound_never(lt, rt) == FALSE

\* if (lt->boundTo || rt->boundTo): unifying the properties bound a table
tableWasBound(lt, rt) == lt.boundTo # None \/ rt.boundTo # None

RECURSIVE DEPRECATED_tryUnifyTables(_, _, _, _)
\* tryUnifyTables after its local u3
tryUnifyTables_u3(u, left, right, isIntersection, lt, rt, missingEarly, extraEarly, s1, s2, u3) ==
    LET lt3 == u3.types[left]
        rt3 == u3.types[right]
    IN
    IF ~cfg.LuauTableSubtypingVariance2
    THEN DEPRECATED_tryUnifyTables(u, left, right, isIntersection)
    ELSE IF lt.tag # "Table" \/ rt.tag # "Table" THEN ice(u)
    ELSE IF /\ cfg.LuauTableUnificationEarlyTest /\ rt.indexer = NoIndexer
            /\ rt.state # "Free" /\ missingEarly # <<>>
    THEN pushError(u, MissingProperties(left, right, missingEarly))
    ELSE IF /\ cfg.LuauTableUnificationEarlyTest /\ u.variance = "Invariant"
            /\ lt.indexer = NoIndexer /\ lt.state \notin {"Unsealed", "Free"}
            /\ extraEarly # <<>>
    THEN pushError(u, MissingPropertiesExtra(left, right, extraEarly))
    ELSE IF lt3.tag # "Table" \/ rt3.tag # "Table" THEN ice(u3)
    ELSE IF s1.missing # <<>>
    THEN pushError(u3, MissingProperties(left, right, s1.missing))
    ELSE IF s2.extra # <<>>
    THEN pushError(u3, MissingPropertiesExtra(left, right, s2.extra))
    ELSE IF tableWasBound(lt3, rt3)
    THEN tryUnify_(u3, left, right, FALSE, FALSE)
    ELSE IF lt3.state = "Free"
    THEN [logTable(u3, left) EXCEPT !.types[left].boundTo = right]
    ELSE IF rt3.state = "Free"
    THEN [logTable(u3, right) EXCEPT !.types[right].boundTo = left]
    ELSE u3

\* tryUnifyTables after its local s2
tryUnifyTables_s2(u, left, right, isIntersection, lt, rt, missingEarly, extraEarly, s1, s2) ==
    tryUnifyTables_u3(u, left, right, isIntersection, lt, rt, missingEarly, extraEarly, s1, s2,
        tableIndexers(s2.u, left, right))

\* tryUnifyTables after its local s1
tryUnifyTables_s1(u, left, right, isIntersection, lt, rt, missingEarly, extraEarly, s1) ==
    tryUnifyTables_s2(u, left, right, isIntersection, lt, rt, missingEarly, extraEarly, s1,
        subPropLoop([u |-> s1.u, extra |-> <<>>], left, right, 1))

tryUnifyTables(u, left, right, isIntersection) ==
    LET lt == u.types[left]
        rt == u.types[right]
        missingEarly == unmatchedProps(u.types, lt.props, rt.props, TRUE, 1)
        extraEarly == unmatchedProps(u.types, rt.props, lt.props, TRUE, 1)
    IN  tryUnifyTables_s1(u, left, right, isIntersection, lt, rt, missingEarly, extraEarly,
            superPropLoop([u |-> u, missing |-> <<>>], left, right, 1))

-----------------------------------------------------------------------------
(* Unifier::DEPRECATED_tryUnifyTables and its helpers *)

\* findTablePropertyRespectingMeta(otherTypeId, freeName) for a table: the
\* type of the property, or None
findTablePropertyRespectingMeta(ts, ty, name) ==
    LET t == ts[follow(ts, ty)] IN
    IF t.tag = "Any" THEN follow(ts, ty)
    ELSE IF t.tag = "Table" /\ name \in DOMAIN t.props THEN t.props[name].type
    ELSE None

RECURSIVE freePropLoop(_, _, _, _)
\* the loop of tryUnifyFreeTable over freeTable->props from name i;
\* st = [u, restarted]
freePropLoop(st, freeTypeId, otherTypeId, i) ==
    LET u == st.u
        freeTable == u.types[freeTypeId]
        otherTable == u.types[otherTypeId]
        freeName == PropNames[i]
        freeProp == freeTable.props[freeName]
        otherProp == findTablePropertyRespectingMeta(u.types, otherTypeId, freeName)
        u1 == tryUnify_(u, otherProp, freeProp.type, FALSE, FALSE)
        next(s) == freePropLoop(s, freeTypeId, otherTypeId, i + 1)
    IN
    IF i > Len(PropNames) THEN st
    ELSE IF freeName \notin DOMAIN freeTable.props THEN next(st)
    ELSE IF otherProp # None
    THEN IF u1.types[freeTypeId].tag # "Table" \/ u1.types[otherTypeId].tag # "Table"
         THEN [u |-> tryUnify_(u1, freeTypeId, otherTypeId, FALSE, FALSE), restarted |-> TRUE]
         ELSE IF u1.types[freeTypeId].boundTo # None
         THEN [u |-> tryUnify_(u1, freeTypeId, otherTypeId, FALSE, FALSE), restarted |-> TRUE]
         ELSE next([st EXCEPT !.u = u1])
    ELSE IF otherTable.state = "Free"
    THEN next([st EXCEPT !.u.types[otherTypeId].props =
                             IF freeName \in DOMAIN @ THEN @ ELSE setProp(@, freeName, freeProp)])
    ELSE next([st EXCEPT !.u = pushError(u, UnknownProperty(otherTypeId, freeName))])

\* tryUnifyFreeTable after its local u2
tryUnifyFreeTable_u2(u, freeTypeId, otherTypeId, st, u1, u2) ==
    LET freeTable2 == u2.types[freeTypeId]
    IN
    IF u.types[freeTypeId].tag # "Table" \/ u.types[otherTypeId].tag # "Table" THEN ice(u)
    ELSE IF st.restarted THEN u1
    ELSE IF freeTable2.tag # "Table" \/ u2.types[otherTypeId].tag # "Table" THEN ice(u2)
    ELSE IF freeTable2.boundTo = None /\ u2.types[otherTypeId].state # "Free"
    THEN [logTable(u2, freeTypeId) EXCEPT !.types[freeTypeId].boundTo = otherTypeId]
    ELSE u2

\* tryUnifyFreeTable after its local st
tryUnifyFreeTable_st(u, freeTypeId, otherTypeId, st) ==
    LET u1 == st.u
        freeTable == u1.types[freeTypeId]
        otherTable == u1.types[otherTypeId]
    IN  tryUnifyFreeTable_u2(u, freeTypeId, otherTypeId, st, u1,
            IF freeTable.indexer # NoIndexer /\ otherTable.indexer # NoIndexer
            THEN LET c == makeChildUnifier(u1)
                     innerState == tryUnifyIndexers(c, freeTable.indexer, otherTable.indexer)
                     p == checkChildUnifierTypeMismatch(resume(u1, innerState),
                              innerState.errors, freeTypeId, otherTypeId)
                 IN concatChild(p, innerState, "freeTableIndexer")
            ELSE IF otherTable.state = "Free" /\ freeTable.indexer # NoIndexer
            THEN [u1 EXCEPT !.types[freeTypeId].indexer = otherTable.indexer]
            ELSE u1)

tryUnifyFreeTable(u, freeTypeId, otherTypeId) ==
    tryUnifyFreeTable_st(u, freeTypeId, otherTypeId,
        freePropLoop([u |-> u, restarted |-> FALSE], freeTypeId, otherTypeId, 1))

RECURSIVE sealedPropLoop(_, _, _, _), sealedIndexerLoop(_, _, _, _)
\* the loop of tryUnifySealedTables over lt->props from name i;
\* st = [inner, reported, missing, errorReported]
sealedPropLoop(st, left, right, i) ==
    LET innerState == st.inner
        lt == innerState.types[left]
        rt == innerState.types[right]
        name == PropNames[i]
        isUnnamedTable == rt.name = ""
        i1 == tryUnify_(innerState, lt.props[name].type, rt.props[name].type, FALSE, FALSE)
        next(s) == sealedPropLoop(s, left, right, i + 1)
    IN
    IF i > Len(PropNames) THEN st
    ELSE IF lt.tag # "Table" \/ rt.tag # "Table" THEN st
    ELSE IF name \notin DOMAIN lt.props THEN next(st)
    ELSE IF name \notin DOMAIN rt.props
    THEN IF isOptional(innerState.types, lt.props[name].type) THEN next(st)
         ELSE next([st EXCEPT !.missing = Append(@, name),
                              !.inner = pushError(innerState, TypeMismatch(left, right))])
    ELSE IF isUnnamedTable /\ rt.props[name].location
    THEN IF Len(i1.errors) # Len(innerState.errors) /\ ~st.errorReported
         THEN next([st EXCEPT !.inner = i1, !.errorReported = TRUE,
                              !.reported = Append(@, Last(i1.errors))])
         ELSE next([st EXCEPT !.inner = i1])
    ELSE next([st EXCEPT !.inner = i1])

\* the properties of rt that lt lacks against the result type of lt's indexer
sealedIndexerLoop(innerState, left, right, i) ==
    LET lt == innerState.types[left]
        rt == innerState.types[right]
        name == PropNames[i]
    IN
    IF i > Len(PropNames) THEN innerState
    ELSE IF lt.tag # "Table" \/ rt.tag # "Table" THEN innerState
    ELSE IF name \in DOMAIN rt.props /\ name \notin DOMAIN lt.props
    THEN sealedIndexerLoop(tryUnify_(innerState, lt.indexer[2], rt.props[name].type,
                                     FALSE, FALSE),
                           left, right, i + 1)
    ELSE sealedIndexerLoop(innerState, left, right, i + 1)

\* the indexers of the two tables in tryUnifySealedTables
sealedIndexers(innerState, left, right) ==
    LET lt == innerState.types[left]
        rt == innerState.types[right]
    IN
    IF lt.indexer = NoIndexer /\ rt.indexer = NoIndexer THEN innerState
    ELSE IF lt.indexer # NoIndexer /\ rt.indexer # NoIndexer
    THEN tryUnifyIndexers(innerState, lt.indexer, rt.indexer)
    ELSE IF rt.state = "Unsealed"
    THEN IF lt.indexer # NoIndexer /\ rt.indexer = NoIndexer
         THEN [innerState EXCEPT !.types[right].indexer = lt.indexer]
         ELSE innerState
    ELSE IF lt.state = "Unsealed"
    THEN IF rt.indexer # NoIndexer /\ lt.indexer = NoIndexer
         THEN [innerState EXCEPT !.types[left].indexer = rt.indexer]
         ELSE innerState
    ELSE IF lt.indexer # NoIndexer
    THEN sealedIndexerLoop(tryUnify_(innerState, lt.indexer[1], stringType, FALSE, FALSE),
                           left, right, 1)
    ELSE pushError(innerState, TypeMismatch(left, right))

\* tryUnifySealedTables after its local p
tryUnifySealedTables_p(u, left, right, isIntersection, lt, rt, missingEarly, st, innerState, p) ==
    LET lt2 == p.types[left]
        rt2 == p.types[right]
        extra == unmatchedProps(p.types, rt2.props, lt2.props, FALSE, 1)
    IN
    IF lt.tag # "Table" \/ rt.tag # "Table" THEN ice(u)
    ELSE IF cfg.LuauTableUnificationEarlyTest /\ rt.indexer = NoIndexer /\ missingEarly # <<>>
    THEN pushError(u, MissingProperties(left, right, missingEarly))
    ELSE IF st.errorReported THEN p
    ELSE IF st.missing # <<>> THEN pushError(p, MissingProperties(left, right, st.missing))
    ELSE IF lt2.tag # "Table" \/ rt2.tag # "Table" THEN ice(p)
    ELSE IF ~isIntersection /\ lt2.state # "Unsealed" /\ lt2.indexer = NoIndexer
            /\ extra # <<>>
    THEN pushError(p, MissingPropertiesExtra(left, right, extra))
    ELSE checkChildUnifierTypeMismatch(p, innerState.errors, left, right)

\* tryUnifySealedTables after its local innerState
tryUnifySealedTables_innerState(u, left, right, isIntersection, lt, rt, missingEarly, st,
                                innerState) ==
    LET r == resume(u, innerState)
    IN  tryUnifySealedTables_p(u, left, right, isIntersection, lt, rt, missingEarly, st, innerState,
            concatChild([r EXCEPT !.errors = @ \o st.reported], innerState, "sealedTables"))

\* tryUnifySealedTables after its local st
tryUnifySealedTables_st(u, left, right, isIntersection, lt, rt, missingEarly, st) ==
    tryUnifySealedTables_innerState(u, left, right, isIntersection, lt, rt, missingEarly, st,
        IF st.inner.types[left].tag = "Table" /\ st.inner.types[right].tag = "Table"
        THEN sealedIndexers(st.inner, left, right)
        ELSE ice(st.inner))

tryUnifySealedTables(u, left, right, isIntersection) ==
    LET lt == u.types[left]
        rt == u.types[right]
        c == makeChildUnifier(u)
        missingEarly == unmatchedProps(u.types, lt.props, rt.props, FALSE, 1)
    IN  tryUnifySealedTables_st(u, left, right, isIntersection, lt, rt, missingEarly,
            sealedPropLoop([inner |-> c, reported |-> <<>>, missing |-> <<>>,
                            errorReported |-> FALSE], left, right, 1))

RECURSIVE unsealedPropLoop(_, _, _, _)
\* the loop of DEPRECATED_tryUnifyTables over lt->props for two tables that
\* are neither sealed nor free
unsealedPropLoop(u, left, right, i) ==
    LET lt == u.types[left]
        rt == u.types[right]
        name == PropNames[i]
    IN
    IF i > Len(PropNames) THEN u
    ELSE IF lt.tag # "Table" \/ rt.tag # "Table" THEN u
    ELSE IF name \notin DOMAIN lt.props THEN unsealedPropLoop(u, left, right, i + 1)
    ELSE IF name \notin DOMAIN rt.props
    THEN unsealedPropLoop(pushError(u, UnknownProperty(right, name)), left, right, i + 1)
    ELSE unsealedPropLoop(tryUnify_(u, lt.props[name].type, rt.props[name].type, FALSE, FALSE),
                          left, right, i + 1)

\* DEPRECATED_tryUnifyTables after its local res
DEPRECATED_tryUnifyTables_res(u0, res) ==
    [res EXCEPT !.variance = u0.variance]

\* DEPRECATED_tryUnifyTables after its local bothFree
DEPRECATED_tryUnifyTables_bothFree(u0, left, right, isIntersection, u, lt, rt, ls, rs, bothFree) ==
    LET u1 == unsealedPropLoop(u, left, right, 1)
        lt1 == u1.types[left]
        rt1 == u1.types[right]
    IN  DEPRECATED_tryUnifyTables_res(u0,
            IF lt.tag # "Table" \/ rt.tag # "Table" THEN ice(u)
            ELSE IF ls = "Sealed" /\ rs = "Sealed"
            THEN tryUnifySealedTables(u, left, right, isIntersection)
            ELSE IF (ls = "Sealed" /\ rs = "Unsealed") \/ (ls = "Unsealed" /\ rs = "Sealed")
            THEN tryUnifySealedTables(u, left, right, isIntersection)
            ELSE IF (ls = "Sealed" /\ rs = "Generic") \/ (ls = "Generic" /\ rs = "Sealed")
            THEN pushError(u, TypeMismatch(left, right))
            ELSE IF (ls = "Free") # (rs = "Free")
            THEN tryUnifyFreeTable(u, IF rs = "Free" THEN right ELSE left,
                                   IF rs = "Free" THEN left ELSE right)
            ELSE IF ls = "Free" /\ rs = "Free"
            THEN IF follow(bothFree.types, left) # follow(bothFree.types, right)
                 THEN [logTable(bothFree, left) EXCEPT !.types[left].boundTo = right]
                 ELSE bothFree
            ELSE IF ls # "Sealed" /\ rs # "Sealed"
            THEN IF lt1.tag # "Table" \/ rt1.tag # "Table" THEN ice(u1)
                 ELSE IF lt1.indexer # NoIndexer /\ rt1.indexer # NoIndexer
                 THEN tryUnifyIndexers(u1, lt1.indexer, rt1.indexer)
                 ELSE IF lt1.indexer # NoIndexer
                 THEN IF rt1.state = "Unsealed"
                      THEN [u1 EXCEPT !.types[right].indexer = lt1.indexer]
                      ELSE pushError(u1, CannotExtendTable(right, "Indexer"))
                 ELSE u1
            ELSE IF ls = "Sealed" THEN ice(u)
            ELSE IF rs = "Sealed" THEN tryUnifyTables(u, right, left, isIntersection)
            ELSE ice(u))

DEPRECATED_tryUnifyTables(u0, left, right, isIntersection) ==
    LET u == [u0 EXCEPT !.variance = "Invariant"]
        lt == u.types[left]
        rt == u.types[right]
        ls == lt.state
        rs == rt.state
    IN  DEPRECATED_tryUnifyTables_bothFree(u0, left, right, isIntersection, u, lt, rt, ls, rs,
            tryUnifyFreeTable(u, left, right))

-----------------------------------------------------------------------------
(* The graphs and configurations the unifier is run on *)

L0 == MkLevel(0, 0)
L1 == MkLevel(1, 0)
L2 == MkLevel(2, 0)

Arena(ts, ps) == [types |-> SingletonTypes \o ts, packs |-> SingletonPacks \o ps]

Fn(args, ret, def) == FunctionTypeVar(<<>>, <<>>, args, ret, L0, def)
Tbl(ps, st) == TableTypeVar(ps, NoIndexer, st, L1, "")

\* functions, argument packs with a free tail, a union of a function
FunctionWorld ==
    [arena |-> Arena(
        << FreeTypeVar(L1),                            \* 7
           Fn(2, 3, FALSE),                            \* 8  (t7) -> number
           Fn(4, 3, TRUE),                             \* 9  (number, number) -> number
           Fn(5, 7, FALSE),                            \* 10 (number, ...p6) -> string
           UnionTypeVar(<<9, stringType>>) >>,         \* 11
        << TypePack(<<7>>, None),                      \* 2
           TypePack(<<numberType>>, None),             \* 3
           TypePack(<<numberType, numberType>>, None), \* 4
           TypePack(<<numberType>>, 6),                \* 5
           FreeTypePack(L1),                           \* 6
           TypePack(<<stringType>>, None),             \* 7
           VariadicTypePack(numberType) >>),           \* 8
     types |-> {<<8, 9>>, <<9, 10>>, <<11, 10>>, <<7, 8>>, <<8, 8>>, <<7, numberType>>},
     packs |-> {<<4, 5>>, <<8, 5>>, <<2, 3>>, <<5, 5>>}]

\* sealed, unsealed and free tables
TableWorld ==
    [arena |-> Arena(
        << FreeTypeVar(L1),                                              \* 7
           Tbl("foo" :> Property(7), "Sealed"),                          \* 8
           Tbl("foo" :> Property(numberType), "Sealed"),                 \* 9
           Tbl("prop" :> Property(numberType), "Unsealed"),              \* 10
           Tbl("bar" :> Property(stringType), "Free"),                   \* 11
           Tbl(("foo" :> Property(stringType)) @@ ("v" :> Property(numberType)),
               "Sealed"),                                                \* 12
           TableTypeVar(NoProps, TableIndexer(stringType, numberType), "Sealed", L1, ""),
                                                                         \* 13
           BoundTypeVar(11),                                             \* 14
           Tbl("next" :> Property(16), "Free"),                          \* 15
           Tbl("next" :> Property(15), "Free"),                          \* 16
           Tbl("foo" :> Property(stringType), "Free") >>,                \* 17
        << >>),
     types |-> {<<8, 9>>, <<9, 11>>, <<11, 9>>, <<10, 12>>, <<8, 12>>, <<11, 14>>,
                <<13, 9>>, <<9, 12>>, <<15, 16>>, <<9, 17>>, <<17, 9>>},
     packs |-> {}]

\* metatables, a free table that learns its metatable, classes
MetatableWorld ==
    [arena |-> Arena(
        << FreeTypeVar(L1),                                              \* 7
           Tbl(NoProps, "Sealed"),                                       \* 8
           MetatableTypeVar(7, 8),                                       \* 9
           Tbl("foo" :> Property(stringType), "Free"),                   \* 10
           Tbl("foo" :> Property(numberType), "Sealed"),                 \* 11
           MetatableTypeVar(11, 8),                                      \* 12
           UnionTypeVar(<<12, numberType>>),                             \* 13
           ClassTypeVar("Base", None, "foo" :> Property(numberType)),    \* 14
           ClassTypeVar("Derived", 14, NoProps),                         \* 15
           MetatableTypeVar(8, 8),                                       \* 16
           UnionTypeVar(<<16, numberType>>) >>,                          \* 17
        << >>),
     types |-> {<<9, 10>>, <<12, 10>>, <<13, 10>>, <<17, 10>>, <<14, 15>>, <<15, 14>>,
                <<14, 10>>, <<12, 16>>},
     packs |-> {}]

\* unions, intersections and types that contain the free type they meet
UnionWorld ==
    [arena |-> Arena(
        << FreeTypeVar(L1),                                              \* 7
           UnionTypeVar(<<7, numberType>>),                              \* 8
           UnionTypeVar(<<numberType, stringType>>),                     \* 9
           IntersectionTypeVar(<<numberType, 7>>),                       \* 10
           Tbl("foo" :> Property(7), "Sealed"),                          \* 11
           Tbl("bar" :> Property(stringType), "Sealed"),                 \* 12
           IntersectionTypeVar(<<11, 12>>),                              \* 13
           Tbl(("foo" :> Property(numberType)) @@ ("bar" :> Property(stringType)),
               "Sealed"),                                                \* 14
           Fn(2, 2, FALSE),                                              \* 15 (t7) -> (t7)
           MetatableTypeVar(11, 12) >>,                                  \* 16
        << TypePack(<<7>>, None) >>),                                    \* 2
     types |-> {<<7, 8>>, <<9, numberType>>, <<numberType, 9>>, <<10, 7>>, <<7, 11>>,
                <<13, 14>>, <<14, 13>>, <<7, 15>>, <<7, 16>>},
     packs |-> {}]

\* cyclic sealed tables and a table over a free type: the unify cache
CacheWorld ==
    [arena |-> Arena(
        << Tbl(("next" :> Property(9)) @@ ("v" :> Property(numberType)), "Sealed"),  \* 7
           Tbl(("next" :> Property(10)) @@ ("v" :> Property(stringType)), "Sealed"), \* 8
           Tbl("prop" :> Property(7), "Sealed"),                         \* 9
           Tbl("prop" :> Property(8), "Sealed"),                         \* 10
           FreeTypeVar(L1),                                              \* 11
           UnionTypeVar(<<11, numberType>>),                             \* 12
           Tbl("bar" :> Property(11), "Sealed"),                         \* 13
           Tbl("bar" :> Property(numberType), "Sealed") >>,              \* 14
        << >>),
     types |-> {<<7, 8>>, <<9, 10>>, <<11, 12>>, <<13, 14>>, <<14, 14>>},
     packs |-> {}]

\* free types of several levels and generics
LevelWorld ==
    [arena |-> Arena(
        << FreeTypeVar(L1),                            \* 7
           FreeTypeVar(L2),                            \* 8
           GenericTypeVar(L2),                         \* 9
           GenericTypeVar(L0),                         \* 10
           FunctionTypeVar(<<>>, <<>>, 2, 2, L2, FALSE), \* 11
           FreeTypeVar(L0),                            \* 12
           BoundTypeVar(7),                            \* 13
           FunctionTypeVar(<<9>>, <<>>, 7, 8, L0, FALSE),   \* 14 <t9>() -> t9
           FunctionTypeVar(<<10>>, <<>>, 7, 9, L0, FALSE),  \* 15 <t10>() -> t10
           FreeTypeVar(MkLevel(1, 1)) >>,              \* 16
        << TypePack(<<numberType>>, 3),                \* 2
           FreeTypePack(L2),                           \* 3
           FreeTypePack(L1),                           \* 4
           GenericTypePack,                            \* 5
           BoundTypePack(4),                           \* 6
           TypePack(<<>>, None),                       \* 7
           TypePack(<<9>>, None),                      \* 8
           TypePack(<<10>>, None) >>),                 \* 9
     types |-> {<<7, 8>>, <<8, 7>>, <<7, 9>>, <<10, 8>>, <<12, 11>>, <<7, 13>>, <<14, 15>>,
                <<12, 14>>, <<8, 10>>, <<9, 7>>, <<8, 9>>, <<16, 7>>, <<8, 16>>},
     packs |-> {<<3, 4>>, <<4, 2>>, <<4, 6>>, <<3, 5>>}]

\* the graphs of the TryUnifyTests: functions over fresh types of the global
\* level, functions over primitives, two free tables
TryUnifyWorld ==
    [arena |-> Arena(
        << FreeTypeVar(L0),                            \* 7
           FreeTypeVar(L0),                            \* 8
           FreeTypeVar(L0),                            \* 9
           FreeTypeVar(L0),                            \* 10
           Fn(2, 3, FALSE),                            \* 11 (t7) -> number
           Fn(4, 5, FALSE),                            \* 12 (t8) -> t9
           Fn(6, 7, FALSE),                            \* 13 (t10) -> string
           Fn(3, 3, FALSE),                            \* 14 (number) -> number
           Fn(7, 3, FALSE),                            \* 15 (string) -> number
           FreeTypeVar(L0),                            \* 16
           FreeTypeVar(L0),                            \* 17
           TableTypeVar("foo" :> Property(16), NoIndexer, "Free", L0, ""),   \* 18
           TableTypeVar("bar" :> Property(17), NoIndexer, "Free", L0, "") >>, \* 19
        << TypePack(<<7>>, None),                      \* 2
           TypePack(<<numberType>>, None),             \* 3
           TypePack(<<8>>, None),                      \* 4
           TypePack(<<9>>, None),                      \* 5
           TypePack(<<10>>, None),                     \* 6
           TypePack(<<stringType>>, None) >>),         \* 7
     types |-> {<<11, 12>>, <<11, 13>>, <<14, 15>>, <<18, 19>>},
     packs |-> {}]

\* types of every structure to meet any and the error type
AnyWorld ==
    [arena |-> Arena(
        << FreeTypeVar(L1),                                              \* 7
           GenericTypeVar(L1),                                           \* 8
           FunctionTypeVar(<<>>, <<>>, 2, 4, L1, FALSE),                 \* 9 (t7, ...p3) -> (t8)
           IntersectionTypeVar(<<9, numberType>>),                       \* 10
           TableTypeVar(("foo" :> Property(9)) @@ ("prop" :> Property(12)),
                        TableIndexer(stringType, 7), "Unsealed", L1, ""), \* 11
           UnionTypeVar(<<10, 8>>),                                      \* 12
           MetatableTypeVar(11, 14),                                     \* 13
           Tbl(NoProps, "Sealed"),                                       \* 14
           FreeTypeVar(L2),                                              \* 15
           ClassTypeVar("Base", None, NoProps) >>,                       \* 16
        << TypePack(<<7>>, 3),                                           \* 2
           FreeTypePack(L1),                                             \* 3
           TypePack(<<8>>, None) >>),                                    \* 4
     types |-> {<<anyType, 13>>, <<13, errorRecoveryType>>, <<12, anyType>>,
                <<15, anyType>>, <<errorRecoveryType, 15>>, <<anyType, 8>>,
                <<8, errorRecoveryType>>, <<16, anyType>>},
     packs |-> {}]

\* a union of tables told apart by the singleton type of their field kind
TagWorld ==
    [arena |-> Arena(
        << SingletonTypeVar("string", "A"),                              \* 7
           SingletonTypeVar("string", "B"),                              \* 8
           FreeTypeVar(L1),                                              \* 9
           FreeTypeVar(L1),                                              \* 10
           Tbl(("kind" :> Property(8)) @@ ("v" :> Property(9)), "Sealed"),   \* 11
           Tbl(("kind" :> Property(7)) @@ ("v" :> Property(10)), "Sealed"),  \* 12
           UnionTypeVar(<<11, 12>>),                                     \* 13
           Tbl(("kind" :> Property(7)) @@ ("v" :> Property(numberType)),
               "Sealed"),                                                \* 14
           Tbl(("kind" :> Property(8)) @@ ("v" :> Property(stringType)),
               "Sealed"),                                                \* 15
           UnionTypeVar(<<12, 11>>) >>,                                  \* 16
        << >>),
     types |-> {<<13, 14>>, <<13, 15>>, <<16, 14>>, <<11, 14>>},
     packs |-> {}]

\* the tables of the TryUnifyTests: unsealed tables over fresh types of the
\* global level, an empty unsealed table and a sealed one
UnsealedWorld ==
    [arena |-> Arena(
        << FreeTypeVar(L0),                                              \* 7
           FreeTypeVar(L0),                                              \* 8
           TableTypeVar("foo" :> Property(7), NoIndexer, "Unsealed", L0, ""),  \* 9
           TableTypeVar("foo" :> Property(8), NoIndexer, "Unsealed", L0, ""),  \* 10
           FreeTypeVar(L0),                                              \* 11
           FreeTypeVar(L0),                                              \* 12
           TableTypeVar(("foo" :> Property(11)) @@ ("bar" :> Property(numberType)),
                        NoIndexer, "Unsealed", L0, ""),                  \* 13
           TableTypeVar(("foo" :> Property(12)) @@ ("bar" :> Property(stringType)),
                        NoIndexer, "Unsealed", L0, ""),                  \* 14
           TableTypeVar(NoProps, NoIndexer, "Unsealed", L0, ""),         \* 15
           TableTypeVar("prop" :> Property(numberType), NoIndexer, "Sealed", L0, ""),
                                                                         \* 16
           TableTypeVar("foo" :> Property(7), NoIndexer, "Sealed", L0, "") >>, \* 17
        << >>),
     types |-> {<<9, 10>>, <<13, 14>>, <<15, 16>>, <<17, 10>>},
     packs |-> {}]

\* the packs of the TryUnifyTests: variadic packs, finite packs, packs of
\* different lengths with and without free tails
PackWorld ==
    [arena |-> Arena(
        << FreeTypeVar(L1),                                              \* 7
           FreeTypeVar(L1) >>,                                           \* 8
        << VariadicTypePack(numberType),                                 \* 2
           TypePack(<<numberType, stringType>>, None),                   \* 3
           VariadicTypePack(booleanType),                                \* 4
           TypePack(<<numberType, stringType, booleanType, booleanType>>, None), \* 5
           TypePack(<<numberType, stringType>>, 4),                      \* 6
           TypePack(<<numberType>>, None),                               \* 7
           TypePack(<<7, 8>>, None),                                     \* 8
           TypePack(<<numberType>>, 11),                                 \* 9
           TypePack(<<numberType, numberType>>, 12),                     \* 10
           FreeTypePack(L1),                                             \* 11
           FreeTypePack(L1),                                             \* 12
           TypePack(<<numberType, stringType, booleanType, booleanType>>, None) >>), \* 13
     types |-> {},
     packs |-> {<<2, 3>>, <<4, 5>>, <<5, 6>>, <<6, 5>>, <<7, 8>>, <<8, 7>>, <<9, 10>>,
                <<10, 9>>, <<3, 5>>, <<5, 3>>, <<5, 13>>}]

\* unions as subtypes: options that bind a free type, an option that fails
\* after it has bound one
UnionSubWorld ==
    [arena |-> Arena(
        << FreeTypeVar(L1),                            \* 7
           UnionTypeVar(<<7, numberType>>),            \* 8
           UnionTypeVar(<<numberType, 7>>),            \* 9
           Fn(2, 3, FALSE),                            \* 10 (t7) -> number
           Fn(3, 4, FALSE),                            \* 11 (number) -> string
           UnionTypeVar(<<numberType, 10>>),           \* 12
           Tbl("foo" :> Property(7), "Sealed"),        \* 13
           Tbl("foo" :> Property(numberType), "Sealed"), \* 14
           Tbl("foo" :> Property(stringType), "Sealed"), \* 15
           UnionTypeVar(<<14, 15>>) >>,                \* 16
        << TypePack(<<7>>, None),                      \* 2
           TypePack(<<numberType>>, None),             \* 3
           TypePack(<<stringType>>, None) >>),         \* 4
     types |-> {<<numberType, 8>>, <<numberType, 9>>, <<stringType, 9>>, <<11, 12>>,
                <<13, 16>>},
     packs |-> {}]

\* unions of named tables: an option of the name of the subtype, another of
\* its tag, options that fail before the one that succeeds
NameWorld ==
    [arena |-> Arena(
        << SingletonTypeVar("string", "A"),                              \* 7
           SingletonTypeVar("string", "B"),                              \* 8
           TableTypeVar(("kind" :> Property(8)) @@ ("v" :> Property(numberType)),
                        NoIndexer, "Sealed", L1, "T"),                   \* 9
           Tbl(("kind" :> Property(7)) @@ ("v" :> Property(numberType)), "Sealed"), \* 10
           UnionTypeVar(<<9, 10>>),                                      \* 11
           TableTypeVar(("kind" :> Property(7)) @@ ("v" :> Property(numberType)),
                        NoIndexer, "Sealed", L1, "T"),                   \* 12
           Tbl("v" :> Property(numberType), "Sealed"),                   \* 13
           TableTypeVar("v" :> Property(stringType), NoIndexer, "Sealed", L1, "U"), \* 14
           Tbl("v" :> Property(stringType), "Sealed"),                   \* 15
           UnionTypeVar(<<13, 14, 15>>),                                 \* 16
           TableTypeVar("v" :> Property(numberType), NoIndexer, "Sealed", L1, "U"), \* 17
           TableTypeVar("v" :> Property(numberType), NoIndexer, "Sealed", L1, "U"), \* 18
           UnionTypeVar(<<15, 18>>),                                     \* 19
           UnionTypeVar(<<15, 13, 14>>),                                 \* 20
           Tbl("v" :> Property(numberType), "Sealed") >>,                \* 21
        << >>),
     types |-> {<<11, 12>>, <<16, 17>>, <<19, 17>>, <<13, 21>>, <<20, 21>>},
     packs |-> {}]

\* a class and the tables it meets: free tables that fit it, that differ in
\* the type of a property, that have a property or an indexer it lacks, and
\* a sealed table
ClassWorld ==
    [arena |-> Arena(
        << FreeTypeVar(L1),                                              \* 7
           ClassTypeVar("Base", None,
               ("foo" :> Property(numberType)) @@ ("bar" :> Property(stringType))), \* 8
           Tbl("foo" :> Property(numberType), "Free"),                   \* 9
           Tbl("foo" :> Property(stringType), "Free"),                   \* 10
           Tbl("prop" :> Property(numberType), "Free"),                  \* 11
           TableTypeVar(NoProps, TableIndexer(stringType, numberType), "Free", L1, ""),
                                                                         \* 12
           Tbl("foo" :> Property(numberType), "Sealed"),                 \* 13
           Tbl("foo" :> Property(7), "Free"),                            \* 14
           ClassTypeVar("Derived", 8, NoProps),                          \* 15
           Tbl("foo" :> Property(7), "Unsealed") >>,                     \* 16
        << >>),
     types |-> {<<8, 9>>, <<8, 10>>, <<10, 8>>, <<8, 11>>, <<8, 12>>, <<8, 13>>, <<13, 8>>,
                <<8, 14>>, <<15, 14>>, <<14, 15>>, <<8, 16>>},
     packs |-> {}]

\* primitives and the literals of booleans and strings
LiteralWorld ==
    [arena |-> Arena(
        << SingletonTypeVar("bool", "true"),           \* 7
           SingletonTypeVar("bool", "true"),           \* 8
           SingletonTypeVar("bool", "false"),          \* 9
           SingletonTypeVar("string", "A"),            \* 10
           SingletonTypeVar("string", "A"),            \* 11
           SingletonTypeVar("string", "B"),            \* 12
           PrimitiveTypeVar("number") >>,              \* 13
        << >>),
     types |-> {<<13, numberType>>, <<numberType, stringType>>, <<7, 8>>, <<7, 9>>,
                <<booleanType, 7>>, <<stringType, 10>>, <<10, 11>>, <<10, 12>>,
                <<numberType, 7>>, <<booleanType, 10>>, <<stringType, 9>>,
                <<7, booleanType>>, <<7, 10>>},
     packs |-> {}]

Worlds ==
    {FunctionWorld, TableWorld, MetatableWorld, UnionWorld, CacheWorld, LevelWorld,
     TryUnifyWorld, AnyWorld, TagWorld, UnsealedWorld, PackWorld, UnionSubWorld,
     NameWorld, ClassWorld, LiteralWorld}

\* the feature flags of Unifier.cpp all set to b
Flags(b) ==
    [LuauTableSubtypingVariance2 |-> b,
     LuauUnionHeuristic |-> b,
     LuauTableUnificationEarlyTest |-> b,
     LuauOccursCheckOkWithRecursiveFunctions |-> b,
     LuauExtendedTypeMismatchError |-> b,
     LuauSingletonTypes |-> b,
     LuauExtendedClassMismatchError |-> b,
     LuauErrorRecoveryType |-> b,
     LuauProperTypeLevels |-> b,
     LuauExtendedUnionMismatchError |-> b,
     LuauExtendedFunctionMismatchError |-> b]

LuauTypeInferIterationLimit == 2000
LuauTypeInferTypePackLoopLimit == 5000

\* a value of FInt::LuauTypeInferIterationLimit small enough to be exceeded
SmallIterationLimit == 3

\* a value of FInt::LuauTypeInferTypePackLoopLimit small enough to be reached
SmallPackLoopLimit == 4

Config(b, variance, mode) ==
    Flags(b) @@ [LuauTypeInferIterationLimit |-> LuauTypeInferIterationLimit,
                 LuauTypeInferTypePackLoopLimit |-> LuauTypeInferTypePackLoopLimit,
                 variance |-> variance, mode |-> mode]

Configs ==
    { Config(TRUE, "Covariant", "Strict"),
      Config(TRUE, "Invariant", "Strict"),
      Config(FALSE, "Covariant", "Strict"),
      Config(FALSE, "Covariant", "Nonstrict"),
      [Config(TRUE, "Covariant", "Strict") EXCEPT
          !.LuauTypeInferIterationLimit = SmallIterationLimit],
      [Config(TRUE, "Covariant", "Strict") EXCEPT
          !.LuauTypeInferTypePackLoopLimit = SmallPackLoopLimit] }

-----------------------------------------------------------------------------
(* Userdata: ludata.h, ludata.cpp *)

\* sizeof(dtor), the size of a pointer to function
PtrSize == 8

\* LUA_UTAG_LIMIT, the number of entries of global->udatagc
LUA_UTAG_LIMIT == 128

\* #define UTAG_IDTOR LUA_UTAG_LIMIT
UTAG_IDTOR == LUA_UTAG_LIMIT

INT_MAX == 2147483647

\* sizeof(Udata) and offsetof(Udata, data)
SizeofUdata == 24

OffsetofData == 16

\* #define sizeudata(len) (offsetof(Udata, data) + len)
sizeudata(len) == OffsetofData + len

\* a pointer is the bytes memcpy moves; the null pointer is all zero
NULL == [i \in 1..PtrSize |-> 0]

dtorA == [i \in 1..PtrSize |-> 1]

dtorB == [i \in 1..PtrSize |-> IF i = 1 THEN 1 ELSE 0]

Pointers == {NULL, dtorA, dtorB}

\* what the bytes of a block of len bytes may hold
DataOf(len) ==
    { [i \in 1..len |-> 0],
      [i \in 1..len |-> IF i = len - PtrSize + 1 THEN 1 ELSE 0] }

\* the sizes and tags luaU_newudata is called with
Sizes == {0, PtrSize + 1, INT_MAX}

Tags == {0, 1, 2, UTAG_IDTOR, 255}

\* global->udatagc with a destructor registered for tag 1
udatagcOne == [t \in 0..(LUA_UTAG_LIMIT - 1) |-> IF t = 1 THEN dtorA ELSE NULL]

\* global->udatagc with nothing registered
udatagcNone == [t \in 0..(LUA_UTAG_LIMIT - 1) |-> NULL]

NoUdata == [tag |-> 0, len |-> 0, metatable |-> None, memcat |-> 0, data |-> <<>>]

NoVmCall == [op |-> "none", u |-> NoUdata, at |-> None, events |-> <<>>]

\* a lua_State with no userdata
NewState(udatagc, activememcat) ==
    [heap |-> <<>>, live |-> {}, udatagc |-> udatagc, activememcat |-> activememcat,
     totalbytes |-> 0, aborted |-> FALSE, last |-> NoVmCall]

\* the block luaU_newudata returns: luaM_new leaves the data as it finds it
luaU_newudata(L, s, tag, data) ==
    [tag |-> tag % 256, len |-> s, metatable |-> None, memcat |-> L.activememcat,
     data |-> data]

\* the same copy taken from the start of the data
inlineDtor_fromStart(u) == SubSeq(u.data, 1, PtrSize)

\* memcpy(&dtor, &u->data + u->len - sizeof(dtor), sizeof(dtor))
inlineDtor(u) == SubSeq(u.data, u.len - PtrSize + 1, u.len)

\* the values dtor may have before `if (dtor)`; a read outside the data or
\* outside udatagc gives any pointer
dtorRead(L, u) ==
    IF u.tag = UTAG_IDTOR
    THEN IF u.len >= PtrSize THEN {inlineDtor(u)} ELSE Pointers
    ELSE IF u.tag # 0
         THEN IF u.tag < LUA_UTAG_LIMIT THEN {L.udatagc[u.tag]} ELSE Pointers
         ELSE {NULL}

\* the calls luaU_freeudata makes once dtor is known
luaU_freeudata(u, at, dtor) ==
    (IF dtor # NULL THEN <<[ev |-> "dtor", fn |-> dtor, arg |-> at]>> ELSE <<>>)
        \o <<[ev |-> "luaM_free", block |-> at, size |-> sizeudata(u.len),
              memcat |-> u.memcat]>>

\* luaU_newudata(L, s, tag)
NewUdata(s, tag) ==
    /\ ~vm.aborted
    /\ Len(vm.heap) < MaxUdata
    /\ IF s > INT_MAX - SizeofUdata
       THEN vm' = [vm EXCEPT !.last = [op |-> "luaU_newudata", u |-> NoUdata, at |-> None,
                                       events |-> <<[ev |-> "luaM_toobig"]>>]]
       ELSE \E data \in DataOf(s) :
               vm' = [vm EXCEPT
                        !.heap = Append(@, luaU_newudata(vm, s, tag, data)),
                        !.live = @ \cup {Len(vm.heap) + 1},
                        !.totalbytes = @ + sizeudata(s),
                        !.last = [op |-> "luaU_newudata",
                                  u |-> luaU_newudata(vm, s, tag, data),
                                  at |-> Len(vm.heap) + 1,
                                  events |-> <<[ev |-> "luaM_new", size |-> sizeudata(s)],
                                               [ev |-> "luaC_link"]>>]]
    /\ UNCHANGED <<types, packs, log, errors, seen, cachedUnify, skipCacheForType,
                   iterationCount, cfg, queries, calls, base, last>>

\* luaU_freeudata(L, u), u being the live block at `at`
FreeUdata(at) ==
    /\ ~vm.aborted
    /\ at \in vm.live
    /\ IF vm.heap[at].tag < LUA_UTAG_LIMIT \/ vm.heap[at].tag = UTAG_IDTOR
       THEN \E dtor \in dtorRead(vm, vm.heap[at]) :
               vm' = [vm EXCEPT
                        !.heap[at] = NoUdata,
                        !.live = @ \ {at},
                        !.totalbytes = @ - sizeudata(vm.heap[at].len),
                        !.last = [op |-> "luaU_freeudata", u |-> vm.heap[at], at |-> at,
                                  events |-> luaU_freeudata(vm.heap[at], at, dtor)]]
       ELSE \/ vm' = [vm EXCEPT
                        !.aborted = TRUE,
                        !.last = [op |-> "luaU_freeudata", u |-> vm.heap[at], at |-> at,
                                  events |-> <<[ev |-> "LUAU_ASSERT"]>>]]
            \/ \E dtor \in dtorRead(vm, vm.heap[at]) :
                   vm' = [vm EXCEPT
                            !.heap[at] = NoUdata,
                            !.live = @ \ {at},
                            !.totalbytes = @ - sizeudata(vm.heap[at].len),
                            !.last = [op |-> "luaU_freeudata", u |-> vm.heap[at], at |-> at,
                                      events |-> luaU_freeudata(vm.heap[at], at, dtor)]]
    /\ UNCHANGED <<types, packs, log, errors, seen, cachedUnify, skipCacheForType,
                   iterationCount, cfg, queries, calls, base, last>>

-----------------------------------------------------------------------------
(* The state machine *)

\* the top-level Unifier object over the current arena and shared state
Top ==
    Unifier(types, packs, log, errors, seen, cachedUnify, skipCacheForType,
            iterationCount, cfg.variance)

NoPre == [types |-> <<>>, packs |-> <<>>, log |-> <<>>, errors |-> <<>>, seen |-> <<>>]

Pre == [types |-> types, packs |-> packs, log |-> log, errors |-> errors, seen |-> seen]

Init ==
    \E w \in Worlds, c \in Configs :
        /\ types = w.arena.types
        /\ packs = w.arena.packs
        /\ log = <<>>
        /\ errors = <<>>
        /\ seen = <<>>
        /\ cachedUnify = {}
        /\ skipCacheForType = <<>>
        /\ iterationCount = 0
        /\ cfg = c
        /\ queries = [types |-> w.types, packs |-> w.packs]
        /\ calls = 0
        /\ base = [types |-> w.arena.types, packs |-> w.arena.packs, clean |-> TRUE]
        /\ last = [op |-> "init", kind |-> "none", a |-> None, b |-> None,
                   isFunctionCall |-> FALSE, pre |-> NoPre, obs |-> NoObs, returned |-> <<>>]
        /\ vm = NewState(udatagcNone, 0)

\* the state after the top-level unifier record r has run
Install(r) ==
    /\ types' = r.types
    /\ packs' = r.packs
    /\ log' = r.log
    /\ errors' = r.errors
    /\ seen' = r.seen
    /\ cachedUnify' = r.cachedUnify
    /\ skipCacheForType' = r.skipCacheForType
    /\ iterationCount' = r.iterationCount
    /\ vm' = vm

BaseForCall ==
    IF log = <<>> THEN [types |-> types, packs |-> packs, clean |-> TRUE] ELSE base

\* the state TryUnify leaves, r being the unifier record after tryUnify_
TryUnify_r(superTy, subTy, r) ==
    /\ Install(r)
    /\ last' = [op |-> "tryUnify", kind |-> "type", a |-> superTy, b |-> subTy,
                isFunctionCall |-> FALSE, pre |-> Pre, obs |-> r.obs, returned |-> <<>>]

\* Unifier::tryUnify(TypeId superTy, TypeId subTy)
TryUnify(superTy, subTy) ==
    /\ calls < MaxCalls
    /\ TryUnify_r(superTy, subTy,
           tryUnify_([Top EXCEPT !.iterationCount = 0], superTy, subTy, FALSE, FALSE))
    /\ base' = BaseForCall
    /\ calls' = calls + 1
    /\ UNCHANGED <<cfg, queries>>

\* the state TryUnifyPack leaves, r being the unifier record after tryUnify_
TryUnifyPack_r(superTp, subTp, isFunctionCall, r) ==
    /\ Install(r)
    /\ last' = [op |-> "tryUnify", kind |-> "pack", a |-> superTp, b |-> subTp,
                isFunctionCall |-> isFunctionCall, pre |-> Pre, obs |-> r.obs, returned |-> <<>>]

\* Unifier::tryUnify(TypePackId superTp, TypePackId subTp, bool isFunctionCall)
TryUnifyPack(superTp, subTp, isFunctionCall) ==
    /\ calls < MaxCalls
    /\ TryUnifyPack_r(superTp, subTp, isFunctionCall,
           tryUnifyPack_([Top EXCEPT !.iterationCount = 0], superTp, subTp,
                         isFunctionCall))
    /\ base' = BaseForCall
    /\ calls' = calls + 1
    /\ UNCHANGED <<cfg, queries>>

\* the state CanUnify leaves, s being the child unifier after tryUnify_
CanUnify_s(superTy, subTy, s) ==
    LET r == resume(Top, rollback(s))
    IN /\ Install(r)
       /\ last' = [op |-> "canUnify", kind |-> "type", a |-> superTy, b |-> subTy,
                   isFunctionCall |-> FALSE, pre |-> Pre, obs |-> r.obs, returned |-> s.errors]
       /\ base' = IF log = <<>>
                  THEN [types |-> r.types, packs |-> r.packs, clean |-> TRUE]
                  ELSE [base EXCEPT !.clean = FALSE]

\* Unifier::canUnify(TypeId superTy, TypeId subTy)
CanUnify(superTy, subTy) ==
    /\ calls < MaxCalls
    /\ CanUnify_s(superTy, subTy, tryUnify_(makeChildUnifier(Top), superTy, subTy, FALSE, FALSE))
    /\ calls' = calls + 1
    /\ UNCHANGED <<cfg, queries>>

\* the state CanUnifyPack leaves, s being the child unifier after tryUnify_
CanUnifyPack_s(superTp, subTp, isFunctionCall, s) ==
    LET r == resume(Top, rollback(s))
    IN /\ Install(r)
       /\ last' = [op |-> "canUnify", kind |-> "pack", a |-> superTp, b |-> subTp,
                   isFunctionCall |-> isFunctionCall, pre |-> Pre, obs |-> r.obs, returned |-> s.errors]
       /\ base' = IF log = <<>>
                  THEN [types |-> r.types, packs |-> r.packs, clean |-> TRUE]
                  ELSE [base EXCEPT !.clean = FALSE]

\* Unifier::canUnify(TypePackId superTy, TypePackId subTy, bool isFunctionCall)
CanUnifyPack(superTp, subTp, isFunctionCall) ==
    /\ calls < MaxCalls
    /\ CanUnifyPack_s(superTp, subTp, isFunctionCall,
           tryUnifyPack_(makeChildUnifier(Top), superTp, subTp, isFunctionCall))
    /\ calls' = calls + 1
    /\ UNCHANGED <<cfg, queries>>

\* log.rollback() on the top-level unifier
Rollback ==
    /\ log # <<>>
    /\ LET r == rollback(Top)
       IN /\ Install(r)
          /\ last' = [op |-> "rollback", kind |-> "none", a |-> None, b |-> None,
                      isFunctionCall |-> FALSE, pre |-> Pre, obs |-> NoObs, returned |-> <<>>]
    /\ UNCHANGED <<cfg, queries, calls, base>>

Next ==
    \/ \E q \in queries.types : TryUnify(q[1], q[2])
    \/ \E q \in queries.packs, isFunctionCall \in BOOLEAN :
           TryUnifyPack(q[1], q[2], isFunctionCall)
    \/ \E q \in queries.types : CanUnify(q[1], q[2])
    \/ \E q \in queries.packs, isFunctionCall \in BOOLEAN :
           CanUnifyPack(q[1], q[2], isFunctionCall)
    \/ Rollback

Spec == Init /\ [][Next]_vars

\* a lua_State that allocates and frees userdata, with no unifier at work
InitUdata ==
    /\ types = <<>>
    /\ packs = <<>>
    /\ log = <<>>
    /\ errors = <<>>
    /\ seen = <<>>
    /\ cachedUnify = {}
    /\ skipCacheForType = <<>>
    /\ iterationCount = 0
    /\ cfg = Config(FALSE, "Covariant", "Strict")
    /\ queries = [types |-> {}, packs |-> {}]
    /\ calls = 0
    /\ base = [types |-> <<>>, packs |-> <<>>, clean |-> TRUE]
    /\ last = [op |-> "init", kind |-> "none", a |-> None, b |-> None,
               isFunctionCall |-> FALSE, pre |-> NoPre, obs |-> NoObs, returned |-> <<>>]
    /\ \E udatagc \in {udatagcNone, udatagcOne} : vm = NewState(udatagc, 0)

NextUdata ==
    \/ \E s \in Sizes, tag \in Tags : NewUdata(s, tag)
    \/ \E at \in vm.live : FreeUdata(at)

SpecUdata == InitUdata /\ [][NextUdata]_vars

-----------------------------------------------------------------------------
(* Properties *)

Graph == [types |-> types, packs |-> packs]

GraphBefore == [types |-> last.pre.types, packs |-> last.pre.packs]

\* the kinds of the errors the last operation added to the unifier's errors
NewErrorKinds ==
    {errors[i].kind : i \in (Len(last.pre.errors) + 1)..Len(errors)}

\* the two handles of the last operation followed to the same node
SameRoot ==
    IF last.kind = "type"
    THEN follow(last.pre.types, last.a) = follow(last.pre.types, last.b)
    ELSE last.kind = "pack"
         /\ followPack(last.pre.packs, last.a) = followPack(last.pre.packs, last.b)

\* C1: after tryUnify calls made from an empty log, log.rollback() leaves
\* every node that existed before them with exactly its prior contents.
C1_RollbackSoundness ==
    (last.op = "rollback" /\ base.clean) => sameNodes(base, Graph)

\* C2: tryUnify of two handles that follow to the same type or pack adds no
\* error, adds no log entry and changes no node.
C2_Identity ==
    (last.op = "tryUnify" /\ SameRoot) =>
        /\ errors = last.pre.errors
        /\ log = last.pre.log
        /\ Graph = GraphBefore

\* tryUnify has run on two different handles that follow to one type
C2_IdentityWitness ==
    /\ last.op = "tryUnify" /\ last.kind = "type"
    /\ last.a # last.b
    /\ SameRoot

\* C3: canUnify is a dry run: every node that existed before the call has
\* its prior contents, and the caller's log and errors are unchanged.
C3_CanUnifyDryRun ==
    last.op = "canUnify" =>
        /\ sameNodes(GraphBefore, Graph)
        /\ log = last.pre.log
        /\ errors = last.pre.errors

SpeculativeSites == {"unionSuper", "intersectionSub", "tableProp"}

\* C4: when the child unifier of a union-supertype option, an
\* intersection-subtype part or a table property pair ends with errors and is
\* rolled back, every node has the contents it had when the branch began.
C4_FailedBranchRestored ==
    \A e \in last.obs.adopted :
        (e.site \in SpeculativeSites /\ e.how = "rollback" /\ e.failed) => e.restored

GuardedSites == {"unionSuper", "intersectionSub", "tableProp", "tableIndexer", "classProp"}

C6_SeenDiscipline ==
    /\ last.obs.popOk
    /\ last.op \in {"tryUnify", "canUnify"} => seen = last.pre.seen

\* a call pushed pairs on the seen stack and ended at the iteration limit
C6_SeenWitness ==
    /\ last.op = "tryUnify"
    /\ last.obs.pushed > 1
    /\ "UnificationTooComplex" \in NewErrorKinds

\* the types directly inside the node ty along the kinds of edges `kinds`
inside(ts, ps, kinds, ty) ==
    LET t == ts[ty]
        direct ==
          CASE t.tag = "Union" /\ "Union" \in kinds -> SeqRange(t.options)
            [] t.tag = "Intersection" /\ "Intersection" \in kinds -> SeqRange(t.parts)
            [] t.tag = "Function" /\ "Function" \in kinds ->
                 SeqRange(flatten(ps, t.argTypes).head) \cup SeqRange(flatten(ps, t.retType).head)
            [] t.tag = "Table" /\ "Table" \in kinds ->
                 {t.props[n].type : n \in DOMAIN t.props} \cup SeqRange(t.indexer)
            [] t.tag = "Metatable" /\ "Metatable" \in kinds -> {t.table, t.metatable}
            [] OTHER -> {}
    IN {follow(ts, x) : x \in direct}

RECURSIVE insideClosure(_, _, _, _, _)
insideClosure(ts, ps, kinds, S, n) ==
    LET S1 == S \cup UNION {inside(ts, ps, kinds, x) : x \in S} IN
    IF n = 0 \/ S1 = S THEN S ELSE insideClosure(ts, ps, kinds, S1, n - 1)

\* the structure of T contains F along edges of the kinds `kinds`
contains(ts, ps, kinds, T, F) ==
    F \in insideClosure(ts, ps, kinds, inside(ts, ps, kinds, T), Len(ts))

\* the last operation was tryUnify of a free type F with another, not free,
\* type T that contains F along `kinds`; the result is <<F>> or <<>>
occursCase(kinds) ==
    LET ts == last.pre.types
        A == follow(ts, last.a)
        B == follow(ts, last.b)
        F == IF ts[A].tag = "Free" THEN A ELSE B
        T == IF ts[A].tag = "Free" THEN B ELSE A
    IN IF /\ last.op = "tryUnify" /\ last.kind = "type"
          /\ ts[F].tag = "Free" /\ ts[T].tag # "Free"
          /\ contains(ts, last.pre.packs, kinds, T, F)
       THEN <<F>> ELSE <<>>

occursReported(F) ==
    /\ "OccursCheckFailed" \in NewErrorKinds
    /\ types[F].tag = "Error"

AllKinds == {"Union", "Intersection", "Function", "Table", "Metatable"}

CheckedKinds ==
    {"Union", "Intersection"} \cup
    (IF cfg.LuauOccursCheckOkWithRecursiveFunctions THEN {} ELSE {"Function"})

\* C7 as stated: binding a free type F to a type that contains F inside a
\* function argument or return, a union option, an intersection part, a table
\* property or indexer, or a metatable component reports OccursCheckFailed
\* and turns F into the error type.
C7_OccursCheckAllKinds ==
    \A i \in 1..Len(occursCase(AllKinds)) : occursReported(occursCase(AllKinds)[i])

\* C7 amended: binding a free type F to a type that contains F inside a union
\* option or an intersection part (and, when
\* LuauOccursCheckOkWithRecursiveFunctions is off, a function argument or
\* return) reports OccursCheckFailed and turns F into the error type; tables
\* and metatables are not searched.
C7_OccursCheck ==
    \A i \in 1..Len(occursCase(CheckedKinds)) : occursReported(occursCase(CheckedKinds)[i])

\* tryUnify met a free type inside a union option of the other type
C7_OccursWitness ==
    /\ occursCase({"Union"}) # <<>>
    /\ occursReported(occursCase({"Union"})[1])

\* where the type node i points when it is an indirection, else None
indirection(ts, i) ==
    IF ts[i].tag \in {"Bound", "Table"} THEN ts[i].boundTo ELSE None

packIndirection(ps, i) == IF ps[i].tag = "Bound" THEN ps[i].boundTo ELSE None

RECURSIVE chainEnds(_, _, _), packChainEnds(_, _, _)
\* the chain of indirections from i ends within n steps
chainEnds(ts, i, n) ==
    IF indirection(ts, i) = None THEN TRUE
    ELSE IF n = 0 THEN FALSE
    ELSE chainEnds(ts, indirection(ts, i), n - 1)

packChainEnds(ps, i, n) ==
    IF packIndirection(ps, i) = None THEN TRUE
    ELSE IF n = 0 THEN FALSE
    ELSE packChainEnds(ps, packIndirection(ps, i), n - 1)

\* C8: the indirections formed by Bound type nodes, Bound pack nodes and the
\* boundTo of tables are acyclic, and follow never returns a Bound node.
C8_AcyclicIndirections ==
    /\ \A i \in 1..Len(types) : chainEnds(types, i, Len(types))
    /\ \A i \in 1..Len(packs) : packChainEnds(packs, i, Len(packs))
    /\ \A i \in 1..Len(types) : indirection(types, follow(types, i)) = None
    /\ \A i \in 1..Len(packs) : packs[followPack(packs, i)].tag # "Bound"

\* a type is bound to a free table that was then bound to a metatable: a
\* chain of two indirections made by the unifier
C8_ChainWitness ==
    /\ last.op = "tryUnify"
    /\ \E i \in 1..Len(last.pre.types) :
          /\ types[i].tag = "Bound"
          /\ last.pre.types[i].tag = "Free"
          /\ types[types[i].boundTo].tag = "Table"
          /\ indirection(types, types[i].boundTo) # None

\* a unifier with an empty log, seen stack and cache over the current graph
FreshUnifier == Unifier(types, packs, <<>>, <<>>, <<>>, {}, <<>>, 0, cfg.variance)

\* C9: every pair in the unify cache unifies without errors when tried with
\* an empty cache and an empty seen stack.
C9_CacheSound ==
    \A p \in cachedUnify : tryUnify_(FreshUnifier, p[1], p[2], FALSE, FALSE).errors = <<>>

RECURSIVE subtree(_, _, _, _)
\* the nodes of the structural subtree of the items in S
subtree(ts, ps, S, n) ==
    LET S1 == S \cup UNION {SeqRange(visitChildren(ts, ps, x)) : x \in S} IN
    IF n = 0 \/ S1 = S THEN S ELSE subtree(ts, ps, S1, n - 1)

\* a node a cacheable type must not contain
mutableNode(ts, ps, item) ==
    IF item[1] = "type"
    THEN \/ ts[item[2]].tag \in {"Free", "Generic", "Bound"}
         \/ ts[item[2]].tag = "Table"
            /\ (ts[item[2]].state # "Sealed" \/ ts[item[2]].boundTo # None)
    ELSE ps[item[2]].tag \in {"Free", "Generic", "Bound"}

immutableType(ty) ==
    \A x \in subtree(types, packs, {<<"type", ty>>}, Len(types) + Len(packs)) :
        ~mutableNode(types, packs, x)

\* C10: every type of a cached pair, and every type whose memoized skip flag
\* is false, contains no Free, Generic or Bound node and no table that is not
\* sealed or is bound.
C10_CacheImmutable ==
    /\ \A p \in cachedUnify : immutableType(p[1]) /\ immutableType(p[2])
    /\ \A ty \in DOMAIN skipCacheForType : ~skipCacheForType[ty] => immutableType(ty)

\* C11: a top-level tryUnify starts the iteration counter at 0 and every
\* invocation of tryUnify_ on a type or on a pack, by the unifier or by any of
\* its children, adds one to it, so that after the call the counter is the
\* number of invocations made; each invocation that finds the counter over
\* the limit (and so every invocation after the first such one) appends
\* UnificationTooComplex to the errors of its own unifier and changes neither
\* the graph, nor the log, nor the seen stack
C11_IterationLimit ==
    /\ last.op = "tryUnify" => iterationCount = last.obs.invocations
    /\ last.obs.overLimitOk
    /\ (last.op = "tryUnify" /\ cfg.LuauTypeInferIterationLimit > 0
           /\ last.obs.invocations > cfg.LuauTypeInferIterationLimit)
          => last.obs.overLimit = last.obs.invocations - cfg.LuauTypeInferIterationLimit

\* a top-level tryUnify that made child unifiers and went over the limit
\* in more than one invocation
C11_IterationLimitWitness ==
    /\ last.op = "tryUnify"
    /\ last.obs.adopted # {}
    /\ last.obs.overLimit >= 2
    /\ iterationCount > cfg.LuauTypeInferIterationLimit

\* C12: UnificationTooComplex is never dropped on the way up: when some
\* invocation of a top-level tryUnify found the iteration counter over the
\* limit, the errors of the top-level unifier contain UnificationTooComplex
\* after the call
C12_TooComplexWins ==
    (last.op = "tryUnify" /\ last.obs.overLimit > 0)
        => hasUnificationTooComplex(SubSeq(errors, Len(last.pre.errors) + 1, Len(errors)))

\* one of the two types of the last operation was, followed, any or the
\* error type when the operation began
anyOrErrorCase ==
    /\ last.kind = "type"
    /\ last.op \in {"tryUnify", "canUnify"}
    /\ \/ last.pre.types[follow(last.pre.types, last.a)].tag \in {"Any", "Error"}
       \/ last.pre.types[follow(last.pre.types, last.b)].tag \in {"Any", "Error"}

\* C13: unifying any or the error type with a type of any structure, on
\* either side and under either variance, adds no error as long as the
\* iteration limit is not exceeded
C13_AnyAbsorbs ==
    (anyOrErrorCase /\ last.obs.overLimit = 0)
        => /\ errors = last.pre.errors
           /\ last.returned = <<>>

\* any or the error type has met a type with structure and free types inside
\* it were bound
C13_AnyAbsorbsWitness ==
    /\ anyOrErrorCase
    /\ last.op = "tryUnify"
    /\ last.obs.overLimit = 0
    /\ last.pre.types[follow(last.pre.types, last.a)].tag
           \in {"Metatable", "Union", "Function", "Table"}
    /\ cfg.variance = "Invariant"
    /\ log # last.pre.log

\* C14: no operation of the unifier changes a generic type node or a generic
\* pack node: after the operation the node is still Generic, not bound, and
\* at the level it had before
C14_GenericsUntouched ==
    /\ \A i \in 1..Len(last.pre.types) :
           last.pre.types[i].tag = "Generic" => types[i] = last.pre.types[i]
    /\ \A i \in 1..Len(last.pre.packs) :
           last.pre.packs[i].tag = "Generic" => packs[i] = last.pre.packs[i]

\* the generic types and packs that can be reached from the handle of a type
\* or of a pack in the graph before the last operation
genericsInside(kind, id) ==
    {item \in subtree(last.pre.types, last.pre.packs, {<<kind, id>>},
                      Len(last.pre.types) + Len(last.pre.packs)) :
        IF item[1] = "type" THEN last.pre.types[item[2]].tag = "Generic"
        ELSE last.pre.packs[item[2]].tag = "Generic"}

\* a tryUnify over a type or pack with a generic inside has changed the graph
C14_GenericsWitness ==
    /\ last.op = "tryUnify"
    /\ genericsInside(last.kind, last.a) \cup genericsInside(last.kind, last.b) # {}
    /\ Graph # GraphBefore
    /\ log # last.pre.log

\* the table nodes of the graph before the last operation
tablesBefore ==
    {i \in 1..Len(last.pre.types) : last.pre.types[i].tag = "Table"}

gainedProperty(i) ==
    types[i].tag = "Table" /\ DOMAIN types[i].props # DOMAIN last.pre.types[i].props
                          /\ DOMAIN last.pre.types[i].props \subseteq DOMAIN types[i].props

gainedIndexer(i) ==
    types[i].tag = "Table" /\ last.pre.types[i].indexer = NoIndexer
                          /\ types[i].indexer # NoIndexer

gainedBoundTo(i) ==
    types[i].tag = "Table" /\ last.pre.types[i].boundTo = None /\ types[i].boundTo # None

\* C15: a unification step leaves a Sealed table a Sealed table with the
\* properties, the indexer and the boundTo it had; only tables that were
\* Free or Unsealed gain a property or an indexer, and only tables that were
\* Free acquire boundTo
C15_SealedTablesFixed ==
    last.op \in {"tryUnify", "canUnify"} =>
        \A i \in tablesBefore :
            /\ last.pre.types[i].state = "Sealed" =>
                  /\ types[i].tag = "Table" /\ types[i].state = "Sealed"
                  /\ types[i].props = last.pre.types[i].props
                  /\ types[i].indexer = last.pre.types[i].indexer
                  /\ types[i].boundTo = last.pre.types[i].boundTo
            /\ gainedProperty(i) => last.pre.types[i].state \in {"Free", "Unsealed"}
            /\ gainedIndexer(i) => last.pre.types[i].state \in {"Free", "Unsealed"}
            /\ gainedBoundTo(i) => last.pre.types[i].state = "Free"

\* a tryUnify of a Sealed table with a table that is not Sealed, in which a
\* table gained a property, an indexer or boundTo
C15_SealedTablesWitness ==
    /\ last.op = "tryUnify"
    /\ last.kind = "type"
    /\ {last.a, last.b} \subseteq tablesBefore
    /\ "Sealed" \in {last.pre.types[last.a].state, last.pre.types[last.b].state}
    /\ \E i \in {last.a, last.b} : gainedProperty(i) \/ gainedIndexer(i) \/ gainedBoundTo(i)

\* the last operation was tryUnify(L, R), L a free table {foo: F} and R a
\* free table {bar: G}, neither bound, F and G free types
freeTablesCase ==
    /\ last.op = "tryUnify"
    /\ last.kind = "type"
    /\ last.obs.overLimit = 0
    /\ LET ts == last.pre.types
           L == ts[last.a]
           R == ts[last.b]
       IN /\ L.tag = "Table" /\ L.state = "Free" /\ L.boundTo = None
          /\ R.tag = "Table" /\ R.state = "Free" /\ R.boundTo = None
          /\ L.indexer = NoIndexer /\ R.indexer = NoIndexer
          /\ DOMAIN L.props = {"foo"} /\ DOMAIN R.props = {"bar"}
          /\ ts[follow(ts, L.props["foo"].type)].tag = "Free"
          /\ ts[follow(ts, R.props["bar"].type)].tag = "Free"

\* C16 as stated: after tryUnify(L, R) of the free tables {foo: F} and
\* {bar: G} there are no errors, the property maps of L and of R both contain
\* foo and bar, and one of the two tables has boundTo set to the other
C16_BothTablesGrow ==
    freeTablesCase =>
        /\ errors = last.pre.errors
        /\ {"foo", "bar"} \subseteq DOMAIN types[last.a].props
        /\ {"foo", "bar"} \subseteq DOMAIN types[last.b].props
        /\ types[last.a].boundTo = last.b \/ types[last.b].boundTo = last.a

\* C16: after tryUnify(L, R) of the free tables {foo: F} and {bar: G} there
\* are no errors, the property map of R contains foo and bar, L has boundTo
\* set to R and R is not bound, so that both handles follow to a table with
\* both properties; the property map of L itself gains bar only when the
\* unifier is invariant and LuauTableSubtypingVariance2 is set
C16_FreeTableGrowth ==
    freeTablesCase =>
        /\ errors = last.pre.errors
        /\ {"foo", "bar"} \subseteq DOMAIN types[last.b].props
        /\ "foo" \in DOMAIN types[last.a].props
        /\ "bar" \in DOMAIN types[last.a].props
              <=> (cfg.LuauTableSubtypingVariance2 /\ cfg.variance = "Invariant")
        /\ types[last.a].boundTo = last.b
        /\ types[last.b].boundTo = None
        /\ follow(types, last.a) = last.b

\* two free tables {foo: F} and {bar: G} were unified by a covariant unifier
C16_FreeTableGrowthWitness ==
    /\ freeTablesCase
    /\ cfg.variance = "Covariant"
    /\ cfg.LuauTableSubtypingVariance2
    /\ types[last.a].boundTo = last.b

\* the options of the union supertype of the last operation, before it
unionOptions ==
    LET ts == last.pre.types IN
    {follow(ts, o) : o \in SeqRange(ts[follow(ts, last.a)].options)}

\* the last operation was tryUnify of a union of tables, each with a tag field
\* of a singleton type and no two with the same tag, and a table with the tag
\* of one of them
taggedUnionShape ==
    /\ last.op = "tryUnify"
    /\ last.kind = "type"
    /\ last.obs.overLimit = 0
    /\ LET ts == last.pre.types
           sub == follow(ts, last.b)
       IN /\ ts[follow(ts, last.a)].tag = "Union"
          /\ ts[sub].tag = "Table"
          /\ getTableMatchTag(ts, sub) # <<>>
          /\ \A o \in unionOptions :
                /\ ts[o].tag = "Table"
                /\ getTableMatchTag(ts, o) # <<>>
                /\ getTableMatchTag(ts, o)[1] = getTableMatchTag(ts, sub)[1]
          /\ \A o1, o2 \in unionOptions :
                getTableMatchTag(ts, o1) = getTableMatchTag(ts, o2) => o1 = o2
          /\ \E o \in unionOptions : getTableMatchTag(ts, o) = getTableMatchTag(ts, sub)

\* the option whose tag is the tag of the subtype
matchingOption ==
    LET ts == last.pre.types IN
    CHOOSE o \in unionOptions : getTableMatchTag(ts, o) = getTableMatchTag(ts, follow(ts, last.b))

\* a unifier with an empty log, seen stack and cache over the graph before
\* the last operation
UnifierBefore ==
    Unifier(last.pre.types, last.pre.packs, <<>>, <<>>, <<>>, {}, <<>>, 0, cfg.variance)

\* the tagged union case with the union heuristic enabled and an option of the
\* equal tag that the subtype unifies with
taggedUnionCase ==
    /\ taggedUnionShape
    /\ cfg.LuauUnionHeuristic /\ cfg.LuauExtendedUnionMismatchError
    /\ tryUnify_(UnifierBefore, matchingOption, follow(last.pre.types, last.b),
                 FALSE, FALSE).errors = <<>>

nodesOf(S) ==
    subtree(last.pre.types, last.pre.packs, {<<"type", x>> : x \in S},
            Len(last.pre.types) + Len(last.pre.packs))

\* the free types and packs that only the options without the tag of the
\* subtype lead to
freeOnlyInOtherOptions ==
    {item \in nodesOf(unionOptions \ {matchingOption}) \ nodesOf({matchingOption, last.b}) :
        IF item[1] = "type" THEN last.pre.types[item[2]].tag = "Free"
        ELSE last.pre.packs[item[2]].tag = "Free"}

\* the option with the equal tag was tried first, no error was reported, and
\* no free type or pack that only the other options lead to was logged or
\* changed
heuristicOutcome ==
    /\ last.obs.tried # <<>>
    /\ last.obs.tried[1] = <<follow(last.pre.types, last.a), matchingOption>>
    /\ errors = last.pre.errors
    /\ \A item \in freeOnlyInOtherOptions :
          /\ item \notin last.obs.touched
          /\ IF item[1] = "type" THEN types[item[2]] = last.pre.types[item[2]]
             ELSE packs[item[2]] = last.pre.packs[item[2]]

\* C17 as stated: tryUnify of a union of tagged tables with a table carrying
\* one of the tags tries the option with the equal tag first, succeeds on it,
\* and binds or changes no free variable that only another option leads to
C17_TaggedUnion == taggedUnionShape => heuristicOutcome

\* C17: with LuauUnionHeuristic and LuauExtendedUnionMismatchError set,
\* tryUnify of a union of tagged tables with a table that carries one of the
\* tags and unifies with the option of that tag tries that option first,
\* reports no error, tries no other option, and neither logs nor changes a
\* free type or pack that only the other options lead to
C17_UnionHeuristic ==
    taggedUnionCase => (heuristicOutcome /\ Len(last.obs.tried) = 1)

\* the union lists the option with the equal tag second, that option has
\* bound a free type, and another option leads to a free type of its own
C17_UnionHeuristicWitness ==
    /\ taggedUnionCase
    /\ last.pre.types[follow(last.pre.types, last.a)].options[1] # matchingOption
    /\ freeOnlyInOtherOptions # {}
    /\ last.obs.touched # {}

\* what the comparison of two nodes that differ themselves yields
Differ == <<"differ", None, None>>

\* the set of pairs that the two nodes of the pair `it` send the comparison
\* on to, with Differ in it when the two nodes differ themselves; `it` is
\* <<"type", a, b>> or <<"pack", a, b>>. Free, generic and error nodes are
\* equal to themselves only.
areEqualChildren(ts, ps, it) ==
    IF it[1] = "type"
    THEN LET a == follow(ts, it[2])
             b == follow(ts, it[3])
             l == ts[a]
             r == ts[b]
             seqPairs(x, y) ==
                 IF Len(x) # Len(y) THEN {Differ}
                 ELSE {<<"type", x[i], y[i]>> : i \in 1..Len(x)}
         IN IF a = b THEN {}
            ELSE IF l.tag # r.tag THEN {Differ}
            ELSE CASE l.tag = "Primitive" -> IF l.type = r.type THEN {} ELSE {Differ}
                   [] l.tag = "Singleton" -> IF l = r THEN {} ELSE {Differ}
                   [] l.tag = "Any" -> {}
                   [] l.tag = "Function" ->
                        {<<"pack", l.argTypes, r.argTypes>>, <<"pack", l.retType, r.retType>>}
                   [] l.tag = "Table" ->
                        IF \/ l.state # r.state
                           \/ DOMAIN l.props # DOMAIN r.props
                           \/ (l.indexer = NoIndexer) # (r.indexer = NoIndexer)
                        THEN {Differ}
                        ELSE seqPairs(l.indexer, r.indexer)
                             \cup {<<"type", l.props[n].type, r.props[n].type>> :
                                      n \in DOMAIN l.props}
                   [] l.tag = "Metatable" ->
                        {<<"type", l.table, r.table>>, <<"type", l.metatable, r.metatable>>}
                   [] l.tag = "Class" -> IF l.name = r.name THEN {} ELSE {Differ}
                   [] l.tag = "Union" -> seqPairs(l.options, r.options)
                   [] l.tag = "Intersection" -> seqPairs(l.parts, r.parts)
                   [] OTHER -> {Differ}
    ELSE LET f == flatten(ps, it[2])
             g == flatten(ps, it[3])
         IN IF followPack(ps, it[2]) = followPack(ps, it[3]) THEN {}
            ELSE IF Len(f.head) # Len(g.head) \/ (f.tail = None) # (g.tail = None)
            THEN {Differ}
            ELSE {<<"type", f.head[i], g.head[i]>> : i \in 1..Len(f.head)}
                 \cup (IF f.tail = None \/ f.tail = g.tail THEN {}
                       ELSE IF ps[f.tail].tag = "Variadic" /\ ps[g.tail].tag = "Variadic"
                       THEN {<<"type", ps[f.tail].ty, ps[g.tail].ty>>}
                       ELSE {Differ})

RECURSIVE areEqualPairs(_, _, _, _)
\* every pair of `todo` and every pair they lead to is a pair of equal nodes;
\* a pair met again counts as equal
areEqualPairs(ts, ps, todo, done) ==
    IF todo = {} THEN TRUE
    ELSE LET it == CHOOSE x \in todo : TRUE
             next == areEqualChildren(ts, ps, it)
         IN IF Differ \in next THEN FALSE
            ELSE areEqualPairs(ts, ps, (todo \cup next) \ (done \cup {it}), done \cup {it})

\* operator== of two TypeVars: equal structure, bindings followed
areEqual(ts, ps, a, b) == areEqualPairs(ts, ps, {<<"type", a, b>>}, {})

\* the function types f and g of a graph take one argument, a free type, and
\* return one value
oneArgFunctions(ts, ps, f, g) ==
    /\ ts[f].tag = "Function" /\ ts[g].tag = "Function"
    /\ ts[f].generics = <<>> /\ ts[g].generics = <<>>
    /\ ts[f].genericPacks = <<>> /\ ts[g].genericPacks = <<>>
    /\ \A tp \in {ts[f].argTypes, ts[g].argTypes, ts[f].retType, ts[g].retType} :
          ps[tp].tag = "TypePack" /\ Len(ps[tp].head) = 1 /\ ps[tp].tail = None
    /\ ts[ps[ts[f].argTypes].head[1]].tag = "Free"
    /\ ts[ps[ts[g].argTypes].head[1]].tag = "Free"
    /\ ps[ts[f].argTypes].head[1] # ps[ts[g].argTypes].head[1]

\* the argument of a one-argument function and its return value before the
\* last operation
argOf(f) == last.pre.packs[last.pre.types[f].argTypes].head[1]
retOf(f) == last.pre.packs[last.pre.types[f].retType].head[1]

\* the last operation was tryUnify of Fun(Free1) -> number with
\* Fun(Free2) -> Free3, three free types of one level
compatibleFunctionsCase ==
    /\ last.op = "tryUnify"
    /\ last.kind = "type"
    /\ last.obs.overLimit = 0
    /\ oneArgFunctions(last.pre.types, last.pre.packs, last.a, last.b)
    /\ retOf(last.a) = numberType
    /\ last.pre.types[retOf(last.b)].tag = "Free"
    /\ retOf(last.b) # argOf(last.b) /\ retOf(last.b) # argOf(last.a)
    /\ last.pre.types[argOf(last.a)].level = last.pre.types[argOf(last.b)].level
    /\ last.pre.types[argOf(last.a)].level = last.pre.types[retOf(last.b)].level

\* C18 as stated: after tryUnify of Fun(Free1) -> number with
\* Fun(Free2) -> Free3 there is no error, Free2 is Bound to Free1, Free3 is
\* Bound to number and the two functions are equal
C18_SubArgumentBound ==
    compatibleFunctionsCase =>
        /\ errors = last.pre.errors
        /\ types[argOf(last.b)] = BoundTypeVar(argOf(last.a))
        /\ types[retOf(last.b)] = BoundTypeVar(numberType)
        /\ areEqual(types, packs, last.a, last.b)

\* C18: after tryUnify of super Fun(Free1) -> number with sub
\* Fun(Free2) -> Free3 there is no error, Free1 is Bound to Free2 (the
\* argument packs are unified with the roles of super and sub exchanged),
\* Free2 is still free, Free3 is Bound to number, and the two functions are
\* equal
C18_CompatibleFunctions ==
    compatibleFunctionsCase =>
        /\ errors = last.pre.errors
        /\ types[argOf(last.a)] = BoundTypeVar(argOf(last.b))
        /\ types[argOf(last.b)] = last.pre.types[argOf(last.b)]
        /\ types[retOf(last.b)] = BoundTypeVar(numberType)
        /\ areEqual(types, packs, last.a, last.b)

\* Fun(Free1) -> number and Fun(Free2) -> Free3, not equal before, were unified
C18_CompatibleFunctionsWitness ==
    /\ compatibleFunctionsCase
    /\ ~areEqual(last.pre.types, last.pre.packs, last.a, last.b)
    /\ areEqual(types, packs, last.a, last.b)

\* the last operation was tryUnify of Fun(Free1) -> P with Fun(Free2) -> Q,
\* P and Q two different primitive types
incompatibleFunctionsCase ==
    /\ last.op = "tryUnify"
    /\ last.kind = "type"
    /\ last.obs.overLimit = 0
    /\ oneArgFunctions(last.pre.types, last.pre.packs, last.a, last.b)
    /\ last.pre.types[retOf(last.a)].tag = "Primitive"
    /\ last.pre.types[retOf(last.b)].tag = "Primitive"
    /\ last.pre.types[retOf(last.a)] # last.pre.types[retOf(last.b)]

\* the errors the last operation added
NewErrors == SubSeq(errors, Len(last.pre.errors) + 1, Len(errors))

\* C19: tryUnify of two functions whose argument packs unify and whose single
\* return types are different primitives adds exactly one error, a
\* TypeMismatch of the two functions; with LuauExtendedFunctionMismatchError
\* it names the return type as the reason and the mismatch of the return
\* types as the cause
C19_ReturnTypeMismatch ==
    incompatibleFunctionsCase =>
        /\ Len(NewErrors) = 1
        /\ NewErrors[1].kind = "TypeMismatch"
        /\ NewErrors[1].wanted = last.a
        /\ NewErrors[1].given = last.b
        /\ cfg.LuauExtendedFunctionMismatchError =>
              /\ NewErrors[1].reason = "Return type is not compatible."
              /\ NewErrors[1].cause = "TypeMismatch"

\* Fun(Free1) -> number was unified with Fun(Free2) -> string and the
\* arguments were bound
C19_ReturnTypeMismatchWitness ==
    /\ incompatibleFunctionsCase
    /\ retOf(last.a) = numberType
    /\ retOf(last.b) = stringType
    /\ types[argOf(last.a)] = BoundTypeVar(argOf(last.b))
    /\ errors # last.pre.errors

\* the node of type t as it was before the last operation compared, in the
\* graph after it, with the node it is now; the snapshot is a copy of the
\* node and shares the packs and types the node refers to
equalsSnapshot(t) ==
    areEqual(Append(types, last.pre.types[t]), packs, t, Len(types) + 1)

-----------------------------------------------------------------------------
(* Tables *)

\* the last operation was tryUnify of two handles that followed to tables
twoTablesCase ==
    /\ last.op = "tryUnify" /\ last.kind = "type"
    /\ last.pre.types[follow(last.pre.types, last.a)].tag = "Table"
    /\ last.pre.types[follow(last.pre.types, last.b)].tag = "Table"

superTableBefore == last.pre.types[follow(last.pre.types, last.a)]

subTableBefore == last.pre.types[follow(last.pre.types, last.b)]

\* the names both tables had, under which each held a free type of its own
sharedFreeProps ==
    {n \in DOMAIN superTableBefore.props \cap DOMAIN subTableBefore.props :
        LET f == follow(last.pre.types, superTableBefore.props[n].type)
            g == follow(last.pre.types, subTableBefore.props[n].type)
        IN  /\ f # g
            /\ last.pre.types[f].tag = "Free"
            /\ last.pre.types[g].tag = "Free"}

\* C21: after tryUnify of two tables reported no error, the free types the two
\* tables held under a common property name follow to the same node; two
\* unsealed tables {foo: F1} and {foo: F2} unify without error
C21_TablePropsUnified ==
    /\ (twoTablesCase /\ errors = last.pre.errors) =>
            \A n \in sharedFreeProps :
                follow(types, superTableBefore.props[n].type)
                    = follow(types, subTableBefore.props[n].type)
    /\ (/\ twoTablesCase
        /\ superTableBefore.state = "Unsealed" /\ subTableBefore.state = "Unsealed"
        /\ DOMAIN superTableBefore.props = {"foo"}
        /\ DOMAIN subTableBefore.props = {"foo"}
        /\ "foo" \in sharedFreeProps)
       => errors = last.pre.errors

\* two unsealed tables {foo: F1} and {foo: F2} were unified without error
C21_TablePropsUnifiedWitness ==
    /\ twoTablesCase /\ errors = last.pre.errors
    /\ superTableBefore.state = "Unsealed" /\ subTableBefore.state = "Unsealed"
    /\ "foo" \in sharedFreeProps
    /\ types[superTableBefore.props["foo"].type].tag = "Bound"
           \/ types[subTableBefore.props["foo"].type].tag = "Bound"

\* tryUnify of two unsealed tables that share foo, a free type of its own
\* on each side, and bar, number on one side and string on the other
incompatibleTablesCase ==
    /\ twoTablesCase
    /\ superTableBefore.state = "Unsealed" /\ subTableBefore.state = "Unsealed"
    /\ DOMAIN superTableBefore.props = {"foo", "bar"}
    /\ DOMAIN subTableBefore.props = {"foo", "bar"}
    /\ "foo" \in sharedFreeProps
    /\ follow(last.pre.types, superTableBefore.props["bar"].type) = numberType
    /\ follow(last.pre.types, subTableBefore.props["bar"].type) = stringType

\* the two types under foo are free types, unbound and not the same
fooTypesApart(ts) ==
    /\ ts[superTableBefore.props["foo"].type].tag = "Free"
    /\ ts[subTableBefore.props["foo"].type].tag = "Free"
    /\ superTableBefore.props["foo"].type # subTableBefore.props["foo"].type

\* C22: tryUnify of two unsealed tables whose foo types are distinct free
\* types and whose bar types are number and string reports exactly one error,
\* and log.rollback() makes the two foo types distinct unbound free types again
C22_IncompatibleTablesPreserved ==
    /\ [](incompatibleTablesCase => Len(errors) = Len(last.pre.errors) + 1)
    /\ [][(incompatibleTablesCase /\ last'.op = "rollback") => fooTypesApart(types')]_vars

\* log.rollback() has run on two such tables, one of whose foo types the
\* failed tryUnify had bound
C22_RollbackWitness ==
    /\ last.op = "rollback"
    /\ Len(errors) = 1
    /\ \E a, b \in 1..Len(types) :
          /\ types[a].tag = "Table" /\ types[b].tag = "Table" /\ a # b
          /\ types[a].state = "Unsealed" /\ types[b].state = "Unsealed"
          /\ DOMAIN types[a].props = {"foo", "bar"}
          /\ DOMAIN types[b].props = {"foo", "bar"}
          /\ types[a].props["bar"].type = numberType
          /\ types[b].props["bar"].type = stringType
          /\ types[types[a].props["foo"].type].tag = "Free"
          /\ types[types[b].props["foo"].type].tag = "Free"
          /\ \/ last.pre.types[types[a].props["foo"].type].tag = "Bound"
             \/ last.pre.types[types[b].props["foo"].type].tag = "Bound"

\* tryUnify of an unsealed table without properties, as the supertype, with
\* the sealed table {prop: number}, covariantly and under the new table rules
emptyUnsealedCase ==
    /\ twoTablesCase
    /\ cfg.variance = "Covariant" /\ cfg.LuauTableSubtypingVariance2
    /\ superTableBefore.state = "Unsealed" /\ superTableBefore.props = NoProps
    /\ subTableBefore.state = "Sealed" /\ DOMAIN subTableBefore.props = {"prop"}
    /\ follow(last.pre.types, subTableBefore.props["prop"].type) = numberType

\* the call added prop to the property map of the unsealed table itself
unsealedGainsProp ==
    emptyUnsealedCase => "prop" \in DOMAIN types[follow(last.pre.types, last.a)].props

\* the unsealed and free tables of the arena as it was when the log was empty
growableTables ==
    {i \in 1..Len(base.types) :
        base.types[i].tag = "Table" /\ base.types[i].state \in {"Unsealed", "Free"}}

\* after log.rollback() no such table has a property or an indexer that it
\* did not have when the log was empty
additionsRemoved ==
    (last.op = "rollback" /\ base.clean) =>
        \A i \in growableTables :
            /\ DOMAIN types[i].props \subseteq DOMAIN base.types[i].props
            /\ base.types[i].indexer = NoIndexer => types[i].indexer = NoIndexer

\* C23: covariantly and under the new table rules, tryUnify(U, S) of the
\* unsealed table U = {} with the sealed table S = {prop: number} adds prop to
\* U; log.rollback() removes every property and indexer that the calls since
\* the log was empty added to an unsealed or free table
C23_RollbackRemovesAdditions == unsealedGainsProp /\ additionsRemoved

\* the same under the new table rules only
additionsRemovedNewRules == cfg.LuauTableSubtypingVariance2 => additionsRemoved

\* log.rollback() has emptied the unsealed table that tryUnify had given prop
undoNewPropReached ==
    /\ last.op = "rollback" /\ base.clean
    /\ \E i \in growableTables :
          /\ base.types[i].props = NoProps /\ types[i].props = NoProps
          /\ "prop" \in DOMAIN last.pre.types[i].props

-----------------------------------------------------------------------------
(* Type packs *)

superPackBefore == last.pre.packs[followPack(last.pre.packs, last.a)]

subPackBefore == last.pre.packs[followPack(last.pre.packs, last.b)]

\* every type of the sequence is a primitive type
allPrimitive(ids) == \A i \in 1..Len(ids) : last.pre.types[ids[i]].tag = "Primitive"

\* tryUnify of a variadic pack of a primitive type, as the super pack, with a
\* pack of primitive types without a tail, the iteration limit not exceeded
variadicSuperCase ==
    /\ last.op = "tryUnify" /\ last.kind = "pack"
    /\ superPackBefore.tag = "Variadic"
    /\ last.pre.types[superPackBefore.ty].tag = "Primitive"
    /\ subPackBefore.tag = "TypePack" /\ subPackBefore.tail = None
    /\ allPrimitive(subPackBefore.head)
    /\ last.obs.overLimit = 0

RECURSIVE mismatches(_, _)
\* the TypeMismatch of ty with each of the heads that is another primitive type
mismatches(ty, heads) ==
    IF heads = <<>> THEN <<>>
    ELSE (IF last.pre.types[Head(heads)].type # last.pre.types[ty].type
          THEN <<TypeMismatch(ty, Head(heads))>>
          ELSE <<>>) \o mismatches(ty, Tail(heads))

\* C24: a variadic super pack of T against a finite pack unifies T with every
\* head in turn and reports a TypeMismatch for exactly the heads that are
\* incompatible with T
C24_VariadicSuper ==
    variadicSuperCase =>
        /\ last.obs.variadics =
               [i \in 1..Len(subPackBefore.head) |-> <<superPackBefore.ty, subPackBefore.head[i]>>]
        /\ NewErrors = mismatches(superPackBefore.ty, subPackBefore.head)

\* ...number against (number, string): one TypeMismatch, of number and string
C24_VariadicSuperWitness ==
    /\ variadicSuperCase
    /\ superPackBefore.ty = numberType
    /\ subPackBefore.head = <<numberType, stringType>>
    /\ NewErrors = <<TypeMismatch(numberType, stringType)>>

\* ...boolean against (number, string, boolean, boolean): the first error is
\* the TypeMismatch of boolean and number
variadicBooleanReached ==
    /\ variadicSuperCase
    /\ superPackBefore.ty = booleanType
    /\ subPackBefore.head = <<numberType, stringType, booleanType, booleanType>>
    /\ NewErrors = <<TypeMismatch(booleanType, numberType), TypeMismatch(booleanType, stringType)>>

\* a pack of primitive heads without a tail
finitePrimitives(p) == p.tag = "TypePack" /\ p.tail = None /\ allPrimitive(p.head)

\* a pack of primitive heads whose tail is a variadic pack of a primitive type
variadicTailed(p) ==
    /\ p.tag = "TypePack" /\ p.tail # None /\ allPrimitive(p.head)
    /\ last.pre.packs[followPack(last.pre.packs, p.tail)].tag = "Variadic"
    /\ last.pre.types[last.pre.packs[followPack(last.pre.packs, p.tail)].ty].tag = "Primitive"

\* the type of the variadic tail of p
tailType(p) == last.pre.packs[followPack(last.pre.packs, p.tail)].ty

\* tryUnify of a finite pack with a shorter pack that ends in a variadic tail,
\* on either side, the iteration limit not exceeded
variadicTailCase ==
    /\ last.op = "tryUnify" /\ last.kind = "pack"
    /\ last.obs.overLimit = 0
    /\ \/ /\ finitePrimitives(superPackBefore) /\ variadicTailed(subPackBefore)
          /\ Len(subPackBefore.head) < Len(superPackBefore.head)
       \/ /\ finitePrimitives(subPackBefore) /\ variadicTailed(superPackBefore)
          /\ Len(superPackBefore.head) < Len(subPackBefore.head)

RECURSIVE pairMismatches(_, _)
\* the TypeMismatch of each pair of heads of different primitive types, as
\* far as both sequences go
pairMismatches(sup, sub) ==
    IF sup = <<>> \/ sub = <<>> THEN <<>>
    ELSE (IF last.pre.types[Head(sup)].type # last.pre.types[Head(sub)].type
          THEN <<TypeMismatch(Head(sup), Head(sub))>>
          ELSE <<>>) \o pairMismatches(Tail(sup), Tail(sub))

\* the heads of the finite pack beyond the heads of the shorter pack, each
\* paired with the type of the variadic tail in the order super, sub
pairsWithTail ==
    IF finitePrimitives(superPackBefore)
    THEN [i \in 1..(Len(superPackBefore.head) - Len(subPackBefore.head)) |->
             <<superPackBefore.head[Len(subPackBefore.head) + i], tailType(subPackBefore)>>]
    ELSE [i \in 1..(Len(subPackBefore.head) - Len(superPackBefore.head)) |->
             <<tailType(superPackBefore), subPackBefore.head[Len(superPackBefore.head) + i]>>]

RECURSIVE tailMismatches(_)
\* the TypeMismatch of each such pair of different primitive types
tailMismatches(pairs) ==
    IF pairs = <<>> THEN <<>>
    ELSE (IF last.pre.types[Head(pairs)[1]].type # last.pre.types[Head(pairs)[2]].type
          THEN <<TypeMismatch(Head(pairs)[1], Head(pairs)[2])>>
          ELSE <<>>) \o tailMismatches(Tail(pairs))

\* C25: when a finite pack of n heads meets a pack of k < n heads with a
\* variadic tail of T, the first k heads are unified pairwise and T is unified
\* with the heads k+1..n only
C25_VariadicTailProgress ==
    variadicTailCase =>
        /\ last.obs.variadics = pairsWithTail
        /\ NewErrors = pairMismatches(superPackBefore.head, subPackBefore.head)
                          \o tailMismatches(pairsWithTail)

\* (number, string, boolean, boolean) against (number, string, ...boolean)
\* reported no error
C25_VariadicTailWitness ==
    /\ variadicTailCase
    /\ superPackBefore.head = <<numberType, stringType, booleanType, booleanType>>
    /\ subPackBefore.head = <<numberType, stringType>>
    /\ tailType(subPackBefore) = booleanType
    /\ last.obs.variadics = <<<<booleanType, booleanType>>, <<booleanType, booleanType>>>>
    /\ NewErrors = <<>>

\* every type of the sequence is a primitive type or an unbound free type
allPrimitiveOrFree(ids) ==
    \A i \in 1..Len(ids) : last.pre.types[ids[i]].tag \in {"Primitive", "Free"}

\* tryUnify of two packs without tails, of primitive and free types, added a
\* CountMismatch
countMismatchCase ==
    /\ last.op = "tryUnify" /\ last.kind = "pack"
    /\ superPackBefore.tag = "TypePack" /\ superPackBefore.tail = None
    /\ subPackBefore.tag = "TypePack" /\ subPackBefore.tail = None
    /\ allPrimitiveOrFree(superPackBefore.head) /\ allPrimitiveOrFree(subPackBefore.head)
    /\ "CountMismatch" \in NewErrorKinds
    /\ last.obs.overLimit = 0

\* the number of heads the two packs have in common
matched == Min2(Len(superPackBefore.head), Len(subPackBefore.head))

\* the heads that were matched pairwise, and the heads left over on the
\* longer side
matchedHeads ==
    {superPackBefore.head[i] : i \in 1..matched} \cup {subPackBefore.head[i] : i \in 1..matched}

leftoverHeads ==
    {superPackBefore.head[i] : i \in (matched + 1)..Len(superPackBefore.head)}
        \cup {subPackBefore.head[i] : i \in (matched + 1)..Len(subPackBefore.head)}

\* C26: when unifying two packs adds a CountMismatch it adds exactly one, every
\* leftover free type is bound to the error-recovery type, and the heads
\* matched pairwise hold the result of their unification, not the error type
C26_CountMismatchRecovery ==
    countMismatchCase =>
        /\ Cardinality({i \in 1..Len(NewErrors) : NewErrors[i].kind = "CountMismatch"}) = 1
        /\ \A h \in leftoverHeads \ matchedHeads :
              last.pre.types[h].tag = "Free" => types[h] = BoundTypeVar(errorRecoveryType)
        /\ \A i \in 1..matched :
              /\ follow(types, superPackBefore.head[i]) = follow(types, subPackBefore.head[i])
                    \/ \E j \in 1..Len(NewErrors) :
                          NewErrors[j] = TypeMismatch(superPackBefore.head[i],
                                                      subPackBefore.head[i])
              /\ follow(types, superPackBefore.head[i]) # errorRecoveryType
              /\ follow(types, subPackBefore.head[i]) # errorRecoveryType

\* (number) against (a, b) in a function call: a is number, b is the error type
C26_CountMismatchWitness ==
    /\ countMismatchCase
    /\ NewErrors = <<CountMismatch(1, 2, "Arg")>>
    /\ \E a \in matchedHeads, b \in leftoverHeads :
          /\ last.pre.types[a].tag = "Free" /\ last.pre.types[b].tag = "Free"
          /\ types[a] = BoundTypeVar(numberType)
          /\ types[b] = BoundTypeVar(errorRecoveryType)

-----------------------------------------------------------------------------
(* any and the error type, generics, the pack loop, union subtypes *)

\* the side of the last operation that tryUnifyWithAny took as `any`: the
\* supertype when it is any or the error type, the subtype otherwise
absorbingSide ==
    IF last.pre.types[follow(last.pre.types, last.a)].tag \in {"Any", "Error"}
    THEN follow(last.pre.types, last.a)
    ELSE follow(last.pre.types, last.b)

otherSide ==
    IF last.pre.types[follow(last.pre.types, last.a)].tag \in {"Any", "Error"}
    THEN follow(last.pre.types, last.b)
    ELSE follow(last.pre.types, last.a)

\* tryUnify reached tryUnifyWithAny: one side was any or the error type and
\* the other was not a free type
withAnyCase ==
    /\ anyOrErrorCase /\ last.op = "tryUnify"
    /\ last.obs.overLimit = 0
    /\ last.pre.types[otherSide].tag # "Free"

\* the free types that could be reached from the other side when the call began
freeTypesInside ==
    {item[2] : item \in
        {x \in subtree(last.pre.types, last.pre.packs, {<<"type", otherSide>>},
                       Len(last.pre.types) + Len(last.pre.packs)) :
            x[1] = "type" /\ last.pre.types[x[2]].tag = "Free"}}

\* C27: tryUnifyWithAny binds every free type reachable from the other side
\* to any when the absorbing side is any, and to the error-recovery type when
\* the absorbing side is the error type
C27_CoercionTarget ==
    withAnyCase =>
        \A f \in freeTypesInside :
            types[f] = BoundTypeVar(IF last.pre.types[absorbingSide].tag = "Any"
                                    THEN anyType ELSE errorRecoveryType)

\* every such free type is bound to any, whichever the absorbing side is
coercedToAny ==
    withAnyCase => \A f \in freeTypesInside : types[f] = BoundTypeVar(anyType)

\* the error type has absorbed a type with free types inside it
errorAbsorbedReached ==
    /\ withAnyCase
    /\ last.pre.types[absorbingSide].tag = "Error"
    /\ freeTypesInside # {}

superBefore == last.pre.types[follow(last.pre.types, last.a)]

subBefore == last.pre.types[follow(last.pre.types, last.b)]

\* tryUnify of a free supertype with a generic subtype
superFreeSubGeneric ==
    /\ last.op = "tryUnify" /\ last.kind = "type" /\ last.obs.overLimit = 0
    /\ superBefore.tag = "Free" /\ subBefore.tag = "Generic"

\* tryUnify of a generic supertype with a free subtype
superGenericSubFree ==
    /\ last.op = "tryUnify" /\ last.kind = "type" /\ last.obs.overLimit = 0
    /\ superBefore.tag = "Generic" /\ subBefore.tag = "Free"

\* the call added the one error msg and left the free type unbound
escaped(free, msg) ==
    /\ NewErrors = <<GenericError(msg)>>
    /\ types[free] = last.pre.types[free]

\* the call added no error and bound the free type to the generic type
boundToGeneric(free, generic) ==
    /\ NewErrors = <<>>
    /\ types[free] = BoundTypeVar(generic)

\* C28 as stated: the generic escapes, and the free type stays unbound, exactly
\* when the level of the free type does not subsume the level of the generic
\* type; otherwise the free type is bound to the generic type
C28_EscapeWhenFreeNotSubsumes ==
    /\ superFreeSubGeneric =>
          IF ~subsumes(superBefore.level, subBefore.level)
          THEN escaped(follow(last.pre.types, last.a), "Generic subtype escaping scope")
          ELSE boundToGeneric(follow(last.pre.types, last.a), follow(last.pre.types, last.b))
    /\ superGenericSubFree =>
          IF ~subsumes(subBefore.level, superBefore.level)
          THEN escaped(follow(last.pre.types, last.b), "Generic supertype escaping scope")
          ELSE boundToGeneric(follow(last.pre.types, last.b), follow(last.pre.types, last.a))

\* C28: the generic escapes, and the free type stays unbound, exactly when the
\* level of the generic type does not subsume the level of the free type;
\* otherwise the free type is bound to the generic type
C28_GenericEscapingScope ==
    /\ superFreeSubGeneric =>
          IF ~subsumes(subBefore.level, superBefore.level)
          THEN escaped(follow(last.pre.types, last.a), "Generic subtype escaping scope")
          ELSE boundToGeneric(follow(last.pre.types, last.a), follow(last.pre.types, last.b))
    /\ superGenericSubFree =>
          IF ~subsumes(superBefore.level, subBefore.level)
          THEN escaped(follow(last.pre.types, last.b), "Generic supertype escaping scope")
          ELSE boundToGeneric(follow(last.pre.types, last.b), follow(last.pre.types, last.a))

\* a free supertype has met a generic subtype of a deeper level, which escaped
C28_GenericEscapingWitness ==
    /\ superFreeSubGeneric
    /\ subBefore.level.level > superBefore.level.level
    /\ escaped(follow(last.pre.types, last.a), "Generic subtype escaping scope")

\* a free type was bound to a generic type of an outer level, on either side
genericBoundReached ==
    \/ /\ superFreeSubGeneric /\ subBefore.level.level < superBefore.level.level
       /\ boundToGeneric(follow(last.pre.types, last.a), follow(last.pre.types, last.b))
    \/ /\ superGenericSubFree /\ superBefore.level.level < subBefore.level.level
       /\ boundToGeneric(follow(last.pre.types, last.b), follow(last.pre.types, last.a))

\* tryUnify of two packs of primitive types whose flattened heads differ in
\* number and whose tails are both free packs
growthCase ==
    /\ last.op = "tryUnify" /\ last.kind = "pack" /\ last.obs.overLimit = 0
    /\ superPackBefore.tag = "TypePack" /\ subPackBefore.tag = "TypePack"
    /\ LET superFlat == flatten(last.pre.packs, last.a)
           subFlat == flatten(last.pre.packs, last.b)
       IN /\ Len(superFlat.head) # Len(subFlat.head)
          /\ allPrimitive(superFlat.head) /\ allPrimitive(subFlat.head)
          /\ superFlat.tail # None /\ last.pre.packs[superFlat.tail].tag = "Free"
          /\ subFlat.tail # None /\ last.pre.packs[subFlat.tail].tag = "Free"

\* the loop over the two packs made one pass
singlePass == growthCase => last.obs.passes = 1

\* C29: when two packs whose head counts differ and whose tails are both free
\* are unified, the loop makes a single pass and a CountMismatch is added
C29_GrowthSafeguard ==
    growthCase => /\ last.obs.passes = 1
                  /\ "CountMismatch" \in NewErrorKinds

\* such a call has returned after one pass without any error, the two free
\* tails left as they were
silentSinglePassReached ==
    /\ growthCase
    /\ last.obs.passes = 1
    /\ NewErrors = <<>>
    /\ packs[flatten(last.pre.packs, last.a).tail].tag = "Free"
    /\ packs[flatten(last.pre.packs, last.b).tail].tag = "Free"

\* tryUnify whose subtype was a union and which went through its options
unionSubCase ==
    /\ last.op = "tryUnify" /\ last.kind = "type" /\ last.obs.overLimit = 0
    /\ subBefore.tag = "Union"
    /\ superBefore.tag \notin {"Free", "Any", "Error"}
    /\ \E e \in last.obs.adopted : e.site = "unionSubLast"

\* the child unifier of option i run on its own from the graph as it was
\* when the call began
optionAlone(i) ==
    tryUnify_(UnifierBefore, follow(last.pre.types, last.a), subBefore.options[i], FALSE, FALSE)

\* no error was added exactly when every option unifies without error in a
\* child of its own, and every option but the last was rolled back
optionsChecked ==
    /\ NewErrors = <<>> <=>
          \A i \in 1..Len(subBefore.options) : optionAlone(i).errors = <<>>
    /\ \A e \in last.obs.adopted : e.site = "unionSub" => e.how = "rollback"

failedLastOptionReached ==
    /\ unionSubCase
    /\ \E e \in last.obs.adopted : e.site = "unionSubLast" /\ e.failed /\ e.how = "concat"
    /\ log # last.pre.log

-----------------------------------------------------------------------------
(* The first option of a union supertype *)

\* tryUnify whose supertype was a union and which went through its options
unionSuperCase ==
    /\ last.op = "tryUnify" /\ last.kind = "type" /\ last.obs.overLimit = 0
    /\ superBefore.tag = "Union"
    /\ subBefore.tag \notin {"Free", "Any", "Error", "Union"}
    /\ last.obs.tried # <<>>
    /\ last.obs.tried[1][1] = follow(last.pre.types, last.a)

\* the options of the union that the call tried, in the order it tried them
triedOptions ==
    LET own == {i \in 1..Len(last.obs.tried) :
                   last.obs.tried[i][1] = follow(last.pre.types, last.a)}
        nth(k) == CHOOSE i \in own : Cardinality({j \in own : j < i}) = k - 1
    IN [k \in 1..Cardinality(own) |-> last.obs.tried[nth(k)][2]]

\* the indices (0-based) of the options that carry the name of the subtype
optionsOfName ==
    LET ts == last.pre.types
        subName == getName(ts, last.b)
    IN IF subName = "" THEN {}
       ELSE {i \in 0..(Len(superBefore.options) - 1) :
                getName(ts, superBefore.options[i + 1]) = subName}

\* the indices (0-based) of the options that carry the tag of the subtype
optionsOfTag ==
    LET ts == last.pre.types
        subTag == getTableMatchTag(ts, last.b)
    IN IF subTag = <<>> THEN {}
       ELSE {i \in 0..(Len(superBefore.options) - 1) :
                getTableMatchTag(ts, superBefore.options[i + 1]) = subTag}

\* the call went through the options in their cyclic order from the first one
\* it tried, each at most once, and stopped at the first that succeeded
cyclicFromStart ==
    LET opts == superBefore.options
        n == Len(opts)
        t == triedOptions
        s == CHOOSE i \in 0..(n - 1) : opts[i + 1] = t[1]
    IN /\ Len(t) <= n
       /\ \A k \in 1..Len(t) : t[k] = opts[((s + k - 1) % n) + 1]
       /\ Len(t) < n => NewErrors = <<>>

\* C31: with the union heuristic enabled, when the subtype has a name and an
\* option of the union has the same name, the first option tried is the first
\* option of that name, and the options are tried cyclically from it, each at
\* most once
C31_NameBeforeTag ==
    (unionSuperCase /\ cfg.LuauUnionHeuristic /\ optionsOfName # {}) =>
        /\ triedOptions[1] = superBefore.options[firstIndex(optionsOfName, 0) + 1]
        /\ cyclicFromStart

\* the options of a union supertype are tried cyclically from the first one
\* tried, each at most once, until one succeeds
unionOptionsCyclic == unionSuperCase => cyclicFromStart

\* with LuauExtendedUnionMismatchError an option of the tag of the subtype is
\* tried first even when another option carries the name of the subtype;
\* without a tag the first option of the name is tried first
tagBeforeName ==
    (unionSuperCase /\ cfg.LuauUnionHeuristic /\ optionsOfName # {}) =>
        triedOptions[1] = superBefore.options[
            firstIndex(IF cfg.LuauExtendedUnionMismatchError /\ optionsOfTag # {}
                       THEN optionsOfTag ELSE optionsOfName, 0) + 1]

\* the subtype carries the name of the first option and the tag of the
\* second, and the second option was the first one tried
tagOptionFirstReached ==
    /\ unionSuperCase
    /\ optionsOfName = {0} /\ optionsOfTag = {1}
    /\ triedOptions = <<superBefore.options[2]>>
    /\ NewErrors = <<>>

\* the option of the name of the subtype failed, so did the next one, and
\* the option before them succeeded
wrappedAroundReached ==
    /\ unionSuperCase
    /\ optionsOfName = {1} /\ optionsOfTag = {}
    /\ Len(superBefore.options) = 3
    /\ triedOptions = <<superBefore.options[2], superBefore.options[3], superBefore.options[1]>>
    /\ NewErrors = <<>>

\* an option cached as accepting the subtype was the first one tried
cachedOptionFirstReached ==
    /\ unionSuperCase
    /\ optionsOfName = {} /\ optionsOfTag = {}
    /\ triedOptions[1] # superBefore.options[1]
    /\ NewErrors = <<>>

-----------------------------------------------------------------------------
(* Classes and tables *)

\* the class and the table of the last call, whichever side each was on
classSide == IF superBefore.tag = "Class" THEN last.a ELSE last.b

tableSide == IF superBefore.tag = "Class" THEN last.b ELSE last.a

theClass == follow(last.pre.types, classSide)

theTable == follow(last.pre.types, tableSide)

\* tryUnify of a class and a table
classTableCase ==
    /\ last.op = "tryUnify" /\ last.kind = "type" /\ last.obs.overLimit = 0
    /\ {superBefore.tag, subBefore.tag} = {"Class", "Table"}

\* the table has no indexer, and every property of it exists on the class
\* and unifies with the property of the class without error
fitsClass ==
    LET ts == last.pre.types
        t == ts[theTable]
    IN /\ t.indexer = NoIndexer
       /\ \A nm \in DOMAIN t.props :
             /\ lookupClassProp(ts, theClass, nm) # None
             /\ tryUnify_(UnifierBefore, t.props[nm].type,
                          lookupClassProp(ts, theClass, nm), FALSE, FALSE).errors = <<>>

\* a free table is bound to the class exactly when it fits the class, and an
\* error is reported when it does not
freeTableOutcome ==
    /\ types[theTable].boundTo = (IF fitsClass THEN theClass ELSE None)
    /\ ~fitsClass => NewErrors # <<>>

\* a table that is not free: a TypeMismatch and nothing else
otherTableOutcome ==
    /\ "TypeMismatch" \in NewErrorKinds
    /\ Graph = GraphBefore
    /\ log = last.pre.log

\* C32: a class unified with a free table binds the table to the class exactly
\* when the table has no indexer and each of its properties exists on the
\* class and unifies with it without error, and otherwise reports an error
\* and leaves the table unbound; a class unified with a table that is not
\* free reports a TypeMismatch and changes nothing
C32_ClassAgainstTable ==
    classTableCase =>
        IF last.pre.types[theTable].state = "Free"
        THEN freeTableOutcome
        ELSE otherTableOutcome

\* with LuauExtendedClassMismatchError the outcome is the one C32 states
classAgainstTableNewRules ==
    (classTableCase /\ cfg.LuauExtendedClassMismatchError) =>
        IF last.pre.types[theTable].state = "Free"
        THEN freeTableOutcome
        ELSE otherTableOutcome

\* a table that is not free is rejected whatever the flags
tableNotFreeRejected ==
    (classTableCase /\ last.pre.types[theTable].state # "Free") => otherTableOutcome

\* a free table whose property failed to unify with the property of the
\* class has been bound to the class, with the error reported
boundDespiteErrorReached ==
    /\ classTableCase
    /\ last.pre.types[theTable].state = "Free"
    /\ ~fitsClass
    /\ NewErrors # <<>>
    /\ types[theTable].boundTo = theClass

\* a free table over a free type has been bound to the class, the free type
\* bound to the type of the property of the class
boundToClassReached ==
    /\ classTableCase
    /\ fitsClass
    /\ types[theTable].boundTo = theClass
    /\ NewErrors = <<>>
    /\ \E nm \in DOMAIN last.pre.types[theTable].props :
          /\ last.pre.types[last.pre.types[theTable].props[nm].type].tag = "Free"
          /\ types[last.pre.types[theTable].props[nm].type].tag = "Bound"

\* a free table with an indexer has been rejected
indexerRejectedReached ==
    /\ classTableCase
    /\ last.pre.types[theTable].state = "Free"
    /\ last.pre.types[theTable].indexer # NoIndexer
    /\ "GenericError" \in NewErrorKinds
    /\ types[theTable].boundTo = None

-----------------------------------------------------------------------------
(* Primitives and singletons *)

\* tryUnify of two different nodes each of which is a primitive or a singleton
literalCase ==
    /\ last.op = "tryUnify" /\ last.kind = "type" /\ last.obs.overLimit = 0
    /\ follow(last.pre.types, last.a) # follow(last.pre.types, last.b)
    /\ superBefore.tag \in {"Primitive", "Singleton"}
    /\ subBefore.tag \in {"Primitive", "Singleton"}

\* the pairs of primitives and singletons that unify, by the variance
accepts(sup, sub, variance) ==
    \/ sup.tag = "Primitive" /\ sub.tag = "Primitive" /\ sup.type = sub.type
    \/ sup.tag = "Singleton" /\ sub.tag = "Singleton"
          /\ sup.kind = sub.kind /\ sup.value = sub.value
    \/ sup.tag = "Primitive" /\ sub.tag = "Singleton" /\ variance = "Covariant"
          /\ \/ sup.type = "boolean" /\ sub.kind = "bool"
             \/ sup.type = "string" /\ sub.kind = "string"

\* no error when the pair is accepted and one TypeMismatch of the two types
\* when it is not; no node changed and no log entry added
literalOutcome(accepted) ==
    /\ NewErrors = IF accepted THEN <<>>
                   ELSE <<TypeMismatch(follow(last.pre.types, last.a),
                                       follow(last.pre.types, last.b))>>
    /\ Graph = GraphBefore
    /\ log = last.pre.log

\* C33 as stated: primitives unify exactly when their kinds are equal, a
\* singleton with an equal singleton and, under Covariant, with the primitive
\* of its literal; every other pair of primitives and singletons gives one
\* TypeMismatch; nothing is changed or logged
C33_PrimitivesAndSingletons ==
    literalCase => literalOutcome(accepts(superBefore, subBefore, cfg.variance))

\* C33: the same with the rules for singletons applying when
\* LuauSingletonTypes is set; without the flag only two primitives of the
\* same kind unify and every pair with a singleton gives one TypeMismatch
C33_LiteralRules ==
    literalCase =>
        literalOutcome(/\ accepts(superBefore, subBefore, cfg.variance)
                       /\ (cfg.LuauSingletonTypes \/ subBefore.tag = "Primitive"))

\* boolean has met the literal true under Invariant and added one TypeMismatch
C33_LiteralRulesWitness ==
    /\ literalCase
    /\ cfg.LuauSingletonTypes /\ cfg.variance = "Invariant"
    /\ superBefore.tag = "Primitive" /\ subBefore.tag = "Singleton"
    /\ superBefore.type = "boolean" /\ subBefore.kind = "bool"
    /\ Len(NewErrors) = 1

\* two nodes of one literal, a literal under its primitive, two primitive
\* nodes of one kind have unified without error
literalsUnifiedReached ==
    /\ literalCase
    /\ NewErrors = <<>>
    /\ superBefore.tag = "Singleton"

literalUnderPrimitiveReached ==
    /\ literalCase
    /\ NewErrors = <<>>
    /\ superBefore.tag = "Primitive" /\ subBefore.tag = "Singleton"
    /\ subBefore.kind = "string"

primitivesUnifiedReached ==
    /\ literalCase
    /\ NewErrors = <<>>
    /\ superBefore.tag = "Primitive" /\ subBefore.tag = "Primitive"

\* without LuauSingletonTypes two nodes of one literal did not unify
literalsApartReached ==
    /\ literalCase
    /\ ~cfg.LuauSingletonTypes
    /\ superBefore = subBefore
    /\ Len(NewErrors) = 1

-----------------------------------------------------------------------------
(* Two free types *)

\* tryUnify of two different free types
bothFreeCase ==
    /\ last.op = "tryUnify" /\ last.kind = "type" /\ last.obs.overLimit = 0
    /\ follow(last.pre.types, last.a) # follow(last.pre.types, last.b)
    /\ superBefore.tag = "Free" /\ subBefore.tag = "Free"

\* the free type `bound` is bound to the free type `kept`, which is still
\* free at one of the two levels, the one that subsumes both
boundInto(bound, kept) ==
    /\ types[bound] = BoundTypeVar(kept)
    /\ types[kept].tag = "Free"
    /\ types[kept].level \in {superBefore.level, subBefore.level}
    /\ subsumes(types[kept].level, superBefore.level)
    /\ subsumes(types[kept].level, subBefore.level)

\* C34: tryUnify of two different free types binds the subtype to the
\* supertype when the level of the supertype subsumes that of the subtype
\* and the supertype to the subtype otherwise, adds no error, and leaves the
\* unbound one at the lesser of the two levels
C34_FreeLevels ==
    bothFreeCase =>
        /\ NewErrors = <<>>
        /\ IF subsumes(superBefore.level, subBefore.level)
           THEN boundInto(follow(last.pre.types, last.b), follow(last.pre.types, last.a))
           ELSE boundInto(follow(last.pre.types, last.a), follow(last.pre.types, last.b))
        /\ \A t \in 1..Len(last.pre.types) :
              t \notin {follow(last.pre.types, last.a), follow(last.pre.types, last.b)}
                  => types[t] = last.pre.types[t]

\* a free supertype of a deeper level has been bound to the free subtype
C34_FreeLevelsWitness ==
    /\ bothFreeCase
    /\ ~subsumes(superBefore.level, subBefore.level)
    /\ types[follow(last.pre.types, last.a)] = BoundTypeVar(follow(last.pre.types, last.b))
    /\ types[follow(last.pre.types, last.b)] = FreeTypeVar(subBefore.level)

\* a free subtype has been bound to a free supertype of the same major level
siblingBoundReached ==
    /\ bothFreeCase
    /\ superBefore.level # subBefore.level
    /\ superBefore.level.level = subBefore.level.level
    /\ types[follow(last.pre.types, last.b)] = BoundTypeVar(follow(last.pre.types, last.a))

-----------------------------------------------------------------------------
(* Leftover heads *)

\* the free types among the heads of the two packs, one entry per occurrence
freeHeadOccurrences ==
    {<<"super", i>> : i \in {j \in 1..Len(superPackBefore.head) :
                                last.pre.types[superPackBefore.head[j]].tag = "Free"}}
    \cup {<<"sub", i>> : i \in {j \in 1..Len(subPackBefore.head) :
                                last.pre.types[subPackBefore.head[j]].tag = "Free"}}

freeHeads ==
    {h \in SeqRange(superPackBefore.head) \cup SeqRange(subPackBefore.head) :
        last.pre.types[h].tag = "Free"}

\* the heads the two packs have in common unify: two primitives of one kind,
\* or a free type that occurs nowhere else among the heads
prefixUnifies ==
    /\ Cardinality(freeHeadOccurrences) = Cardinality(freeHeads)
    /\ \A i \in 1..matched :
          LET a == last.pre.types[superPackBefore.head[i]]
              b == last.pre.types[subPackBefore.head[i]]
          IN (a.tag = "Primitive" /\ b.tag = "Primitive") => a.type = b.type

\* tryUnify of two packs without tails, of primitive and free types, of
\* different lengths, whose common heads unify
leftoverCase ==
    /\ last.op = "tryUnify" /\ last.kind = "pack" /\ last.obs.overLimit = 0
    /\ superPackBefore.tag = "TypePack" /\ superPackBefore.tail = None
    /\ subPackBefore.tag = "TypePack" /\ subPackBefore.tail = None
    /\ allPrimitiveOrFree(superPackBefore.head) /\ allPrimitiveOrFree(subPackBefore.head)
    /\ Len(superPackBefore.head) # Len(subPackBefore.head)
    /\ prefixUnifies

\* C35: two packs without tails whose common heads unify: when the subtype
\* has more heads a CountMismatch is added exactly when isFunctionCall is
\* set; when the supertype has more heads a CountMismatch is added whatever
\* isFunctionCall is; no other error is added
C35_LeftoverHeads ==
    leftoverCase =>
        /\ "CountMismatch" \in NewErrorKinds <=>
              (last.isFunctionCall \/ Len(superPackBefore.head) > Len(subPackBefore.head))
        /\ NewErrorKinds \subseteq {"CountMismatch"}

\* (number, string) against (number, string, boolean, boolean) outside a
\* function call: no error
C35_LeftoverHeadsWitness ==
    /\ leftoverCase
    /\ ~last.isFunctionCall
    /\ Len(subPackBefore.head) = Len(superPackBefore.head) + 2
    /\ NewErrors = <<>>

\* the same two packs in a function call, and the longer pack as supertype
\* outside one: a CountMismatch
tooManyArgumentsReached ==
    /\ leftoverCase
    /\ last.isFunctionCall
    /\ Len(subPackBefore.head) > Len(superPackBefore.head)
    /\ NewErrorKinds = {"CountMismatch"}

tooFewValuesReached ==
    /\ leftoverCase
    /\ ~last.isFunctionCall
    /\ Len(subPackBefore.head) < Len(superPackBefore.head)
    /\ NewErrorKinds = {"CountMismatch"}

-----------------------------------------------------------------------------
(* How a call ends *)

\* C36: every tryUnify and canUnify ends normally or with
\* UnificationTooComplex: none ends in an internal error
C36_EndsWithoutInternalError ==
    last.op \in {"tryUnify", "canUnify"} => ~last.obs.ice

\* an internal error is raised only by a pack loop that has made
\* LuauTypeInferTypePackLoopLimit passes
internalErrorOnlyFromPackLoop ==
    last.obs.ice => /\ cfg.LuauTypeInferTypePackLoopLimit > 0
                    /\ last.obs.passes >= cfg.LuauTypeInferTypePackLoopLimit

\* two packs of four heads each were unified with the limit of the pack loop
\* at four: the fifth pass raised the internal error
packLoopLimitReached ==
    /\ last.op = "tryUnify" /\ last.kind = "pack"
    /\ last.obs.ice
    /\ superPackBefore.tail = None /\ subPackBefore.tail = None
    /\ Len(superPackBefore.head) = SmallPackLoopLimit
    /\ Len(subPackBefore.head) = SmallPackLoopLimit
    /\ NewErrors = <<>>

\* a table whose property leads back to it was unified with another such
\* table within the iteration limit
cyclicTablesReached ==
    /\ last.op = "tryUnify" /\ last.kind = "type" /\ last.obs.overLimit = 0
    /\ superBefore.tag = "Table" /\ subBefore.tag = "Table"
    /\ <<"type", follow(last.pre.types, last.a)>> \in
           subtree(last.pre.types, last.pre.packs,
                   {<<"type", superBefore.props[nm].type>> : nm \in DOMAIN superBefore.props},
                   Len(last.pre.types) + Len(last.pre.packs))
    /\ ~last.obs.ice

-----------------------------------------------------------------------------
(* Unifying again *)

\* a new unifier of the same variance over the graph as it is now
UnifierNow ==
    Unifier(types, packs, <<>>, <<>>, <<>>, {}, <<>>, 0, cfg.variance)

\* tryUnify of two types or two packs that added no error
cleanCase ==
    /\ last.op = "tryUnify" /\ last.obs.overLimit = 0 /\ ~last.obs.ice
    /\ NewErrors = <<>>

\* the same call made again by a new unifier
again ==
    IF last.kind = "type"
    THEN tryUnify_(UnifierNow, last.a, last.b, FALSE, FALSE)
    ELSE tryUnifyPack_(UnifierNow, last.a, last.b, last.isFunctionCall)

\* the options of the union subtype of the last call
subOptions == last.pre.types[follow(last.pre.types, last.b)].options

\* C37: after a tryUnify that added no error, the same call made again by a
\* new unifier adds no error and changes no node; when the subtype was a
\* union, tryUnify of the supertype with each option adds no error
C37_Idempotence ==
    cleanCase =>
        /\ again.errors = <<>>
        /\ sameNodes(Graph, again)
        /\ (last.kind = "type" /\ subBefore.tag = "Union"
               /\ superBefore.tag \notin {"Free", "Any", "Error"}) =>
              \A i \in 1..Len(subOptions) :
                  tryUnify_(UnifierNow, last.a, subOptions[i], FALSE, FALSE).errors = <<>>

\* a table {foo: a} met the union {foo: number} | {foo: string} without
\* error, a is string, and the table does not unify with {foo: number}
optionRejectedReached ==
    /\ cleanCase /\ last.kind = "type" /\ cfg.variance = "Covariant"
    /\ subBefore.tag = "Union" /\ superBefore.tag = "Table"
    /\ tryUnify_(UnifierNow, last.a, subOptions[1], FALSE, FALSE).errors # <<>>
    /\ again.errors # <<>>

-----------------------------------------------------------------------------
(* When a free table is bound *)

\* tryUnify of two tables, or of a metatable and a table, one of them a free
\* table that is not bound yet
freeTableCase ==
    /\ last.op = "tryUnify" /\ last.kind = "type" /\ last.obs.overLimit = 0
    /\ \/ superBefore.tag = "Table" /\ subBefore.tag = "Table"
       \/ superBefore.tag = "Metatable" /\ subBefore.tag = "Table"
       \/ superBefore.tag = "Table" /\ subBefore.tag = "Metatable"
    /\ \/ superBefore.tag = "Table" /\ superBefore.state = "Free"
       \/ subBefore.tag = "Table" /\ subBefore.state = "Free"

\* the free tables among the two sides of the last call
freeSides ==
    {n \in {follow(last.pre.types, last.a), follow(last.pre.types, last.b)} :
        /\ last.pre.types[n].tag = "Table"
        /\ last.pre.types[n].state = "Free"}

\* C38: a free table that tryUnify of two tables, or of a metatable and a
\* table, has bound to the other side was bound by a call that added no
\* error
C38_BoundOnlyOnSuccess ==
    freeTableCase =>
        \A n \in freeSides :
            types[n].boundTo # last.pre.types[n].boundTo => NewErrors = <<>>

\* the free table of a clean call on two different nodes is bound to the
\* other side
boundOnSuccess ==
    (freeTableCase /\ NewErrors = <<>>
       /\ follow(last.pre.types, last.a) # follow(last.pre.types, last.b)) =>
        \E n \in freeSides : types[n].boundTo # 0

\* two tables whose shared property failed to unify, and the free one is
\* bound to the other
tableBoundDespiteErrorReached ==
    /\ freeTableCase
    /\ cfg.LuauTableSubtypingVariance2
    /\ superBefore.tag = "Table" /\ subBefore.tag = "Table"
    /\ DOMAIN superBefore.props = DOMAIN subBefore.props
    /\ NewErrorKinds = {"TypeMismatch"}
    /\ \E n \in freeSides : types[n].boundTo # 0 /\ last.pre.types[n].boundTo = 0

\* a free table that failed to unify with the table of a metatable, bound to
\* the metatable
metatableBoundDespiteErrorReached ==
    /\ freeTableCase
    /\ superBefore.tag = "Metatable"
    /\ NewErrors # <<>>
    /\ types[follow(last.pre.types, last.b)].boundTo = follow(last.pre.types, last.a)

\* a free table bound by a call that added no error
tableBoundOnSuccessReached ==
    /\ freeTableCase
    /\ NewErrors = <<>>
    /\ \E n \in freeSides : types[n].boundTo # 0 /\ last.pre.types[n].boundTo = 0

-----------------------------------------------------------------------------
(* The iteration counter and canUnify *)

\* canUnify returned an UnificationTooComplex
tooComplexReturned ==
    /\ last.op = "canUnify"
    /\ \E i \in 1..Len(last.returned) : last.returned[i].kind = "UnificationTooComplex"

\* C39: canUnify returns an UnificationTooComplex only if the dry run itself
\* made more than LuauTypeInferIterationLimit invocations of tryUnify_
C39_CanUnifyOwnBudget ==
    tooComplexReturned => last.obs.invocations > cfg.LuauTypeInferIterationLimit

\* canUnify returns an UnificationTooComplex only if the shared counter,
\* which it does not reset, has passed a positive limit
canUnifySharesCounter ==
    tooComplexReturned =>
        /\ cfg.LuauTypeInferIterationLimit > 0
        /\ iterationCount > cfg.LuauTypeInferIterationLimit

\* canUnify adds its invocations to the counter the call before left, and
\* tryUnify starts from zero
counterCarriedOver ==
    /\ last.op = "canUnify" => iterationCount >= last.obs.invocations
    /\ last.op = "tryUnify" => iterationCount = last.obs.invocations

\* a dry run within the limit returned an UnificationTooComplex because of
\* the iterations of the tryUnify before it
budgetSpentBeforeReached ==
    /\ tooComplexReturned
    /\ last.obs.invocations <= cfg.LuauTypeInferIterationLimit
    /\ iterationCount > last.obs.invocations

\* a dry run that made more invocations than the limit by itself
dryRunOverLimitReached ==
    /\ tooComplexReturned
    /\ last.obs.invocations > cfg.LuauTypeInferIterationLimit

-----------------------------------------------------------------------------
(* Freeing a userdata *)

\* luaU_freeudata ran on a userdata whose tag its assertion accepts
freedCase ==
    /\ vm.last.op = "luaU_freeudata"
    /\ vm.last.u.tag < LUA_UTAG_LIMIT \/ vm.last.u.tag = UTAG_IDTOR

\* the destructors the call invoked, in order
dtorsCalled ==
    LET calls_ == SelectSeq(vm.last.events, LAMBDA e : e.ev = "dtor")
    IN [i \in 1..Len(calls_) |-> calls_[i].fn]

\* the last sizeof(dtor) bytes of the data of the userdata
lastBytes == [i \in 1..PtrSize |-> vm.last.u.data[vm.last.u.len - PtrSize + i]]

\* the call of a destructor, if there is one
only(dtor) == IF dtor # NULL THEN <<dtor>> ELSE <<>>

\* C40: luaU_freeudata calls at most one destructor, once, on the data of the
\* userdata, and then frees the block with sizeudata(len): the destructor
\* held in the last bytes of the data when the tag is UTAG_IDTOR, the one of
\* global->udatagc[tag] when the tag is not 0 and below LUA_UTAG_LIMIT, none
\* when the tag is 0 or nothing is registered
C40_OneDestructorThenFree ==
    freedCase =>
        /\ Len(dtorsCalled) <= 1
        /\ \A i \in 1..Len(vm.last.events) :
              /\ vm.last.events[i].ev = "dtor" =>
                    i = 1 /\ Len(vm.last.events) = 2 /\ vm.last.events[i].arg = vm.last.at
              /\ vm.last.events[i].ev = "luaM_free" <=> i = Len(vm.last.events)
        /\ Len(vm.last.events) >= 1
        /\ Last(vm.last.events).block = vm.last.at
        /\ Last(vm.last.events).size = sizeudata(vm.last.u.len)
        /\ vm.last.at \notin vm.live
        /\ (vm.last.u.tag = UTAG_IDTOR /\ vm.last.u.len >= PtrSize)
              => dtorsCalled = only(lastBytes)
        /\ (vm.last.u.tag # 0 /\ vm.last.u.tag < LUA_UTAG_LIMIT)
              => dtorsCalled = only(vm.udatagc[vm.last.u.tag])
        /\ vm.last.u.tag = 0 => dtorsCalled = <<>>

\* a userdata longer than a pointer, tagged UTAG_IDTOR, whose destructor was
\* called from its last bytes before the block was freed
C40_OneDestructorThenFreeWitness ==
    /\ freedCase
    /\ vm.last.u.tag = UTAG_IDTOR /\ vm.last.u.len > PtrSize
    /\ lastBytes # NULL
    /\ lastBytes # SubSeq(vm.last.u.data, 1, PtrSize)
    /\ Len(vm.last.events) = 2
    /\ vm.last.events[1].ev = "dtor" /\ vm.last.events[1].fn = lastBytes
    /\ vm.last.events[2].ev = "luaM_free"

\* the registered destructor of tag 1 was called
registeredDtorReached ==
    /\ freedCase /\ vm.last.u.tag = 1
    /\ dtorsCalled = <<dtorA>>

\* a tag with nothing registered, a tag 0 with a destructor registered for
\* another tag, and a null inline destructor: no destructor called
noDtorReached ==
    /\ freedCase /\ vm.last.u.tag = 2 /\ vm.udatagc[1] # NULL
    /\ dtorsCalled = <<>>

tagZeroReached ==
    /\ freedCase /\ vm.last.u.tag = 0 /\ vm.udatagc[1] # NULL
    /\ vm.last.events = <<[ev |-> "luaM_free", block |-> vm.last.at,
                           size |-> sizeudata(vm.last.u.len), memcat |-> vm.last.u.memcat]>>

nullInlineReached ==
    /\ freedCase /\ vm.last.u.tag = UTAG_IDTOR /\ vm.last.u.len >= PtrSize
    /\ dtorsCalled = <<>>

RECURSIVE liveBytes(_)
liveBytes(S) ==
    IF S = {} THEN 0
    ELSE LET at == CHOOSE x \in S : TRUE
         IN sizeudata(vm.heap[at].len) + liveBytes(S \ {at})

\* the bytes counted are the bytes of the live blocks
bytesBalance ==
    vm.totalbytes = liveBytes(vm.live)

\* luaU_newudata with a size over INT_MAX - sizeof(Udata) allocates nothing
tooBigReached ==
    /\ vm.last.op = "luaU_newudata"
    /\ vm.last.events = <<[ev |-> "luaM_toobig"]>>
    /\ vm.heap = <<>>

\* a userdata tagged UTAG_IDTOR and shorter than a pointer: the destructor
\* called was not read from its data
shortInlineReached ==
    /\ freedCase /\ vm.last.u.tag = UTAG_IDTOR /\ vm.last.u.len < PtrSize
    /\ dtorsCalled = <<dtorA>>

\* a userdata made with a tag over UTAG_IDTOR fails the assertion of
\* luaU_freeudata
assertionFailedReached ==
    /\ vm.aborted
    /\ vm.last.u.tag > UTAG_IDTOR

====
